---------------------------- MODULE Spec2Model ----------------------------
(***************************************************************************)
(* A model of the work distribution and session state subsystem of the     *)
(* LinkedIn profile scraper (src/utils/playwright_scrapper.py, with the     *)
(* file watcher of src/utils/file_watcher.py and the database state         *)
(* manager of src/utils/state_management.py), and of the activity merge    *)
(* of src/test.py.                                                         *)
(*                                                                         *)
(* Twelve specifications share the module:                                 *)
(*   Spec        the worker pool of LinkedInProfileScraper with             *)
(*               NumWorkers worker threads sharing linkedin_state.json,     *)
(*               working through a fixed source file within one hour;       *)
(*   SpecMain    the program as main() launches it (worker_count = 1),      *)
(*               with the passage of time, rows appended to the source      *)
(*               file and process restarts;                                 *)
(*   SpecFilter  the incremental filter and the per-kind extractors as      *)
(*               pure functions over bounded activity batches;              *)
(*   SpecStore   the two processed-URL stores (the processed_urls list of   *)
(*               linkedin_state.json and the processed_profiles table of    *)
(*               DatabaseStateManager) under repeated mark calls;           *)
(*   SpecLive    Spec with every worker thread scheduled fairly;           *)
(*   SpecSession one worker whose session cap is reached after one         *)
(*               profile, with the reinitialization of scrape_profile;     *)
(*   SpecMerge   normalize_profile over bounded activities of one profile; *)
(*   SpecMergeStamped  the same over records that differ in their recent   *)
(*               timestamps;                                               *)
(*   SpecCooldown  the timed pool of one worker within one run, its       *)
(*               worker thread scheduled fairly;                           *)
(*   SpecProcess the process from main() to its exit: command line,        *)
(*               startup, the threads of start_scraping, signal and exit   *)
(*               status;                                                   *)
(*   SpecPool    _init_workers over bounded credential and proxy lists;    *)
(*   SpecSim     simulate_human_behavior called on a worker whose event    *)
(*               loop is not running.                                      *)
(***************************************************************************)
EXTENDS Integers, Sequences, FiniteSets, TLC

(***************************************************************************)
(* Bounds of the model.                                                    *)
(***************************************************************************)
\* Worker threads of the pool under Spec (config worker_count).
NumWorkers == 2
\* Distinct profile URLs that may appear in the source file.
NumTargets == 2
\* Last value of the wall clock, in hours.
MaxClock == 2
\* Latest ISO timestamp an activity record of the feed may carry.
MaxStamp == 2
\* Longest raw activity batch the extraction script returns under SpecFilter.
MaxBatch == 6
\* Longest raw activity batch under Spec and SpecMain.
MaxPoolBatch == 1
\* Process restarts under SpecMain.
MaxRestarts == 2
\* Rows appended to the source file while the program runs.
MaxAppends == 1
\* Profiles taken from the queue in one behaviour, over all workers and
\* restarts.
MaxDequeues == 2
\* Mark calls made for one profile URL on one store under SpecStore, and
\* scrape_profile or refresh_session calls of the agent under SpecSim.
MaxCalls == 2
\* Session caps drawn by __init__ above the smallest one (randint(3, 5)
\* gives a spread of two).
CapSpread == 0
\* Whole cooldown hours drawn by _enter_cooldown above the shortest window
\* (uniform(2, 4) gives a spread of two).
CooldownSpread == 0
\* The per-session profile cap of the one-worker session scenario.
SessionCapOne == 1
\* Posts, comments and reactions in the activity of one profile under
\* SpecMerge.
MaxRecords == 3
\* Largest worker_count, and the numbers of credentials and of proxies the
\* lists are drawn from, under SpecPool.
MaxPool == 3
MaxCredentials == 2
MaxProxies == 2

(***************************************************************************)
(* Program constants.                                                      *)
(***************************************************************************)
\* max_posts / max_comments / max_reactions passed by scrape_user_activity.
MaxPerKind == 5
\* timedelta(days=num): one day in clock hours.
HoursPerDay == 24
\* timedelta(weeks=number)
DaysPerWeek == 7
\* timedelta(days=num * 30)
DaysPerMonth == 30
\* timedelta(days=num * 365)
DaysPerYear == 365
\* RECENT_WINDOW = {"days": 15}
RecentWindowDays == 15
\* The exit status of argparse's error().
ArgparseStatus == 2
\* os._exit(1) of force_exit.
ForcedStatus == 1
\* proxy = None of _init_workers: the worker has no proxy.
NoProxy == 0
\* random.uniform(2, 4): the cooldown window in hours.
MinCooldownHours == 2
MaxCooldownHours == 4
\* random.randint(3, 5): max_profiles_per_session.
MinSessionProfiles == 3
MaxSessionProfiles == 5
\* timedelta(hours=random.uniform(1, 2)): session_duration_limit.  The limit
\* is a real number between one and two hours, so a whole number of elapsed
\* hours exceeds it exactly when it is at least two.
MaxSessionHours == 2
\* time.time() - last_profile_time > 1800: a whole number of idle hours is
\* more than thirty minutes exactly when it is at least one.
IdleRefreshHours == 1

Workers == 0 .. (NumWorkers - 1)
Targets == 1 .. NumTargets
Kinds == {"post", "comment", "reaction"}

(***************************************************************************)
(* Timestamps.  A raw timestamp is the text the extraction script found:   *)
(* an ISO datetime, a relative age ("2d", "3mo", "1yr"), other text that   *)
(* does not parse ("5h", "1w"), or nothing.                                *)
(***************************************************************************)
NoneTs == [tag |-> "none"]
Iso(t) == [tag |-> "iso", t |-> t]
Rel(unit, num) == [tag |-> "rel", unit |-> unit, num |-> num]
BadTs == [tag |-> "bad"]

\* A parsed datetime, or None.
NoTime == [ok |-> FALSE]
At(t) == [ok |-> TRUE, t |-> t]

parse_linkedin_timestamp(ts, now) ==
    CASE ts.tag = "none" -> NoTime
      [] ts.tag = "iso" -> At(ts.t)
      [] ts.tag = "rel" /\ ts.unit = "d" -> At(now - ts.num * HoursPerDay)
      [] ts.tag = "rel" /\ ts.unit = "mo" ->
            At(now - ts.num * DaysPerMonth * HoursPerDay)
      [] ts.tag = "rel" /\ ts.unit = "yr" ->
            At(now - ts.num * DaysPerYear * HoursPerDay)
      [] OTHER -> NoTime

\* datetime.isoformat() of a parsed time, or None.
isoformat(time) == IF time.ok THEN Iso(time.t) ELSE NoneTs

(***************************************************************************)
(* incremental_filter(data, since_timestamp, max_count), evaluated at wall *)
(* clock `now`.  max_count = 0 stands for None.                            *)
(***************************************************************************)
RECURSIVE FilterLoop(_, _, _, _, _, _, _)
FilterLoop(data, i, cutoff, max_count, now, filtered, most_recent) ==
    IF i > Len(data)
    THEN [filtered |-> filtered, most_recent |-> most_recent]
    ELSE LET activity == data[i]
             activity_time == parse_linkedin_timestamp(activity.timestamp, now)
         IN  IF cutoff.ok /\ activity_time.ok /\ activity_time.t <= cutoff.t
             THEN FilterLoop(data, i + 1, cutoff, max_count, now,
                             filtered, most_recent)
             ELSE LET filtered2 == Append(filtered, activity)
                      most_recent2 ==
                          IF ~most_recent.ok
                                \/ (activity_time.ok
                                      /\ activity_time.t > most_recent.t)
                          THEN activity_time
                          ELSE most_recent
                  IN  IF max_count > 0 /\ Len(filtered2) >= max_count
                      THEN [filtered |-> filtered2,
                            most_recent |-> most_recent2]
                      ELSE FilterLoop(data, i + 1, cutoff, max_count, now,
                                      filtered2, most_recent2)

RECURSIVE FilterLoopStrict(_, _, _, _, _, _, _)
FilterLoopStrict(data, i, cutoff, max_count, now, filtered, most_recent) ==
    IF i > Len(data)
    THEN [filtered |-> filtered, most_recent |-> most_recent]
    ELSE LET activity == data[i]
             activity_time == parse_linkedin_timestamp(activity.timestamp, now)
         IN  IF cutoff.ok /\ activity_time.ok /\ activity_time.t < cutoff.t
             THEN FilterLoopStrict(data, i + 1, cutoff, max_count, now,
                                   filtered, most_recent)
             ELSE LET filtered2 == Append(filtered, activity)
                      most_recent2 ==
                          IF ~most_recent.ok
                                \/ (activity_time.ok
                                      /\ activity_time.t > most_recent.t)
                          THEN activity_time
                          ELSE most_recent
                  IN  IF max_count > 0 /\ Len(filtered2) >= max_count
                      THEN [filtered |-> filtered2,
                            most_recent |-> most_recent2]
                      ELSE FilterLoopStrict(data, i + 1, cutoff, max_count,
                                            now, filtered2, most_recent2)

\* The filter with the cutoff comparison off by one (< for <=).
incremental_filter_strict(data, since_timestamp, max_count, now) ==
    LET cutoff == IF since_timestamp.tag # "none"
                  THEN parse_linkedin_timestamp(since_timestamp, now)
                  ELSE NoTime
        r == FilterLoopStrict(data, 1, cutoff, max_count, now, <<>>, NoTime)
    IN  [filtered |-> r.filtered, most_recent |-> isoformat(r.most_recent)]

incremental_filter(data, since_timestamp, max_count, now) ==
    LET cutoff == IF since_timestamp.tag # "none"
                  THEN parse_linkedin_timestamp(since_timestamp, now)
                  ELSE NoTime
        r == FilterLoop(data, 1, cutoff, max_count, now, <<>>, NoTime)
    IN  [filtered |-> r.filtered, most_recent |-> isoformat(r.most_recent)]

\* posts_data[:max_posts]
Truncate(data, max_count) ==
    IF max_count > 0 /\ Len(data) > max_count
    THEN SubSeq(data, 1, max_count)
    ELSE data

\* _extract_posts / _extract_comments / _extract_reactions: the script's
\* rows, cut to max_count, then filtered.
extract_kind(data, since_timestamp, max_count, now) ==
    incremental_filter(Truncate(data, max_count), since_timestamp,
                       max_count, now)

\* A marker update that takes whatever the extractor returned.
new_time_always(last_time, most_recent) == most_recent

\* scrape_user_activity: a kind's marker is replaced only by a truthy
\* most-recent time.
new_time(last_time, most_recent) ==
    IF most_recent.tag # "none" THEN most_recent ELSE last_time

(***************************************************************************)
(* linkedin_state.json: the dict load_state() returns and save_state()     *)
(* writes.  Its keys are "processed_urls", one entry per profile URL       *)
(* holding the three last_*_time markers, and one "worker_<id>_cooldown"   *)
(* entry per worker.  A key that is absent has present = FALSE.            *)
(***************************************************************************)
NoTimes == [k \in Kinds |-> NoneTs]
AbsentEntry == [present |-> FALSE, last |-> NoTimes]
AbsentCooldown ==
    [present |-> FALSE, in_cooldown |-> FALSE, cooldown_until |-> NoneTs]
\* load_state() when the file does not exist: {}
EmptyState ==
    [processed_urls |-> <<>>,
     times |-> [t \in Targets |-> AbsentEntry],
     cooldown |-> [w \in Workers |-> AbsentCooldown]]
\* The worker holds no loaded dict.
NoState == [loaded |-> FALSE]
Loaded(st) == [loaded |-> TRUE, dict |-> st]

InSeq(x, seq) == \E i \in 1 .. Len(seq) : seq[i] = x

\* A cooldown entry written under one key for every worker.
SetCooldown_shared(st, w, flag, until) ==
    [st EXCEPT !.cooldown[0] =
        [present |-> TRUE, in_cooldown |-> flag, cooldown_until |-> until]]

\* state[f"worker_{id}_cooldown"] = {"in_cooldown": ..., "cooldown_until": ...}
SetCooldown(st, w, flag, until) ==
    [st EXCEPT !.cooldown[w] =
        [present |-> TRUE, in_cooldown |-> flag, cooldown_until |-> until]]

\* state[profile_url] = new_times
SetTimes(st, url, new_times) ==
    [st EXCEPT !.times[url] = [present |-> TRUE, last |-> new_times]]

\* state["processed_urls"].append(profile_url)
AppendProcessed(st, url) ==
    [st EXCEPT !.processed_urls = Append(@, url)]

\* A row of the source that load_profile_urls and the watcher accept
\* ("/in/" in profile_url); 0 stands for a row with no profile URL.
InvalidUrl == 0
IsProfileUrl(u) == u \in Targets

(***************************************************************************)
(* State.                                                                  *)
(***************************************************************************)
(***************************************************************************)
(* DatabaseStateManager (src/utils/state_management.py): the               *)
(* processed_profiles table, one row at most per profile_url (UNIQUE).     *)
(***************************************************************************)
NoDbRow ==
    [present |-> FALSE, processed_at |-> 0, worker_id |-> 0,
     status |-> "none"]
EmptyTable == [t \in Targets |-> NoDbRow]

\* is_processed: SELECT 1 ... WHERE profile_url = %s AND status = 'completed'
is_processed(table, profile_url) ==
    table[profile_url].present /\ table[profile_url].status = "completed"

\* mark_processed: INSERT ... ON CONFLICT (profile_url) DO UPDATE SET
\* processed_at = CURRENT_TIMESTAMP, worker_id, status = EXCLUDED.*
db_mark_processed(table, profile_url, worker_id, status, now) ==
    [table EXCEPT ![profile_url] =
        [present |-> TRUE, processed_at |-> now, worker_id |-> worker_id,
         status |-> status]]

VARIABLES
    clock,            \* datetime.now(), in hours
    stateFile,        \* contents of linkedin_state.json
    profileStore,     \* the activity rows of the database, per profile
    sourceFile,       \* rows of the profile CSV (profile_url column)
    appends,          \* rows appended to the source so far
    restarts,         \* process restarts so far
    worker_count,     \* config['worker_count']
    running,          \* LinkedInProfileScraper.running
    started,          \* start_scraping has started the threads
    profile_queue,    \* LinkedInProfileScraper.profile_queue
    results_queue,    \* LinkedInProfileScraper.results_queue
    processed_profiles,
    successful_profiles,
    watcher,          \* ProfileFileWatcher: running, loaded_urls, dirty
    worker,           \* the PlaywrightProfileScraper objects and threads
    hist,             \* history of completed writes and cooldowns
    fx,               \* harness of the pure filter functions (SpecFilter)
    db                \* DatabaseStateManager: the processed_profiles table

vars == <<clock, stateFile, profileStore, sourceFile, appends, restarts,
          worker_count, running, started, profile_queue, results_queue,
          processed_profiles, successful_profiles, watcher, worker, hist, fx, db>>

poolVars == <<clock, stateFile, profileStore, sourceFile, appends, restarts,
              worker_count, running, started, profile_queue, results_queue,
              processed_profiles, successful_profiles, watcher, worker, hist>>

Pool == 0 .. (worker_count - 1)

NoActivity == [k \in Kinds |-> <<>>]
NoRow == [present |-> FALSE, activity |-> NoActivity]

\* PlaywrightProfileScraper.__init__.  The session caps are drawn here
\* (86-87) and nowhere else; caps records what has become of that draw:
\* "drawn" until a session starts, "in_use" during the first session that
\* runs under it, "reused" once a later session has started under it.
NewWorker(cap) ==
    [pc |-> "start",
     in_cooldown |-> FALSE,
     cooldown_until |-> NoTime,
     is_logged_in |-> FALSE,
     browser |-> FALSE,
     session_start_time |-> NoTime,
     profiles_scraped |-> 0,
     max_profiles_per_session |-> cap,
     caps |-> "drawn",
     last_profile_time |-> 0,
     url |-> InvalidUrl,
     state |-> NoState,
     times |-> NoTimes,
     activity |-> NoActivity,
     ret |-> FALSE,
     outcome |-> "none"]

(***************************************************************************)
(* SpecFilter: one activity kind of one profile, fetched twice.  The       *)
(* harness holds the raw rows the extraction script returns (fx.data), the *)
(* marker stored for the kind (fx.since) and the kind's rows in the        *)
(* database (fx.store).  FxPass is one fetch: the extractor, the marker    *)
(* update of scrape_user_activity, and _save_profile_data.                 *)
(***************************************************************************)
\* Raw timestamps a row of the feed may carry.
FeedStamps == {Iso(t) : t \in 1 .. MaxStamp} \cup {Rel("d", 1), BadTs}
\* Markers a profile may have stored before the first fetch.
StoredMarkers == {NoneTs} \cup {Iso(t) : t \in 0 .. MaxStamp}

FxIdle ==
    [phase |-> "idle", data |-> <<>>, since |-> NoneTs, store |-> <<>>,
     passes |-> 0, now |-> 0, cutoff |-> NoneTs, out |-> <<>>,
     first |-> [since |-> NoneTs, store |-> <<>>]]

FxInit ==
    \E s \in StoredMarkers :
        fx = [FxIdle EXCEPT !.phase = "feed", !.since = s]

\* The extraction script finds one more row on the activity tab.
FxRow(ts) ==
    /\ fx.phase = "feed"
    /\ Len(fx.data) < MaxBatch
    /\ fx' = [fx EXCEPT !.data =
                 Append(@, [id |-> Len(fx.data) + 1, timestamp |-> ts])]
    /\ UNCHANGED <<poolVars, db>>

\* _save_profile_data: DELETE the profile's rows of the kind, INSERT the
\* rows of this fetch.
save_activity_rows(old_rows, rows) == rows

\* One fetch of the kind: _extract_posts (1733-1759), the marker update of
\* scrape_user_activity (1596-1599), state[profile_url] = new_times
\* (751-753) and _save_profile_data (1870-1945).
FxPass ==
    /\ fx.phase \in {"feed", "once"}
    /\ LET r == extract_kind(fx.data, fx.since, MaxPerKind, clock)
           since2 == new_time(fx.since, r.most_recent)
           store2 == save_activity_rows(fx.store, r.filtered)
       IN  fx' = [fx EXCEPT
                    !.phase = IF fx.phase = "feed" THEN "once" ELSE "twice",
                    !.passes = @ + 1,
                    !.now = clock,
                    !.cutoff = fx.since,
                    !.out = r.filtered,
                    !.since = since2,
                    !.store = store2,
                    !.first = IF fx.phase = "feed"
                              THEN [since |-> since2, store |-> store2]
                              ELSE @]
    /\ UNCHANGED <<poolVars, db>>

\* Time passes between the two fetches.
FxTick ==
    /\ fx.phase = "once"
    /\ clock < MaxClock
    /\ clock' = clock + 1
    /\ UNCHANGED <<stateFile, profileStore, sourceFile, appends, restarts,
                   worker_count, running, started, profile_queue,
                   results_queue, processed_profiles, successful_profiles,
                   watcher, worker, hist, fx, db>>

(***************************************************************************)
(* The pool: LinkedInProfileScraper, its worker threads, the file watcher  *)
(* and the result processor.  load_state() and save_state() are each one   *)
(* atomic step on the file; everything a thread does between two accesses  *)
(* of shared state (the file, the queues, the database) belongs to the     *)
(* step of the later access.                                               *)
(***************************************************************************)
Min(a, b) == IF a < b THEN a ELSE b
SessionCaps ==
    MinSessionProfiles ..
        Min(MaxSessionProfiles, MinSessionProfiles + CapSpread)
CooldownHours ==
    MinCooldownHours ..
        Min(MaxCooldownHours, MinCooldownHours + CooldownSpread)

\* The later of two stored markers (None is before every time).
LaterOf(a, b) ==
    IF a.tag = "none" THEN b
    ELSE IF b.tag = "none" THEN a
    ELSE IF a.t >= b.t THEN a ELSE b

\* History of the behaviour, kept for the properties alone:
\*   wrote        targets whose markers a worker has saved (753)
\*   high         per target and kind, the latest marker saved so far
\*   marked       per target, the completed mark steps (767-773)
\*   fetchers     per target, the workers that fetched it
\*   entered      per worker, the until of the last cooldown persisted
\*   write_failed workers whose current scrape had a write fail
\*   mark_failed  targets whose mark step has failed
\*   passes       per target, loader and watcher passes since that failure
\*   dequeues     profiles taken from the queue
\*   auth_failed  workers for which login() has returned False
HistInit ==
    [wrote |-> {},
     high |-> [t \in Targets |-> NoTimes],
     marked |-> [t \in Targets |-> 0],
     fetchers |-> [t \in Targets |-> {}],
     entered |-> [w \in Workers |-> NoTime],
     write_failed |-> {},
     mark_failed |-> {},
     passes |-> [t \in Targets |-> 0],
     dequeues |-> 0,
     auth_failed |-> {}]

PoolInitWith(n, caps) ==
    /\ clock = 0
    /\ stateFile = EmptyState
    /\ profileStore = [t \in Targets |-> NoRow]
    /\ sourceFile \in {[i \in 1 .. k |-> i] : k \in 1 .. NumTargets}
    /\ appends = 0
    /\ restarts = 0
    /\ worker_count = n
    /\ running = FALSE
    /\ started = FALSE
    /\ profile_queue = <<>>
    /\ results_queue = <<>>
    /\ processed_profiles = 0
    /\ successful_profiles = 0
    /\ watcher = [running |-> FALSE, loaded_urls |-> {}, dirty |-> FALSE]
    /\ worker \in [Workers -> {NewWorker(c) : c \in caps}]
    /\ \A w \in Workers \ (0 .. (n - 1)) :
          worker[w] = NewWorker(CHOOSE c \in caps : \A d \in caps : c <= d)
    /\ hist = HistInit

\* The pool as _init_workers builds it: every worker draws its session cap
\* in __init__ (86).
PoolInit(n) == PoolInitWith(n, SessionCaps)

\* Rows of the source with a profile URL, in source order.
RECURSIVE ValidRows(_)
ValidRows(rows) ==
    IF rows = <<>> THEN <<>>
    ELSE IF IsProfileUrl(Head(rows))
         THEN <<Head(rows)>> \o ValidRows(Tail(rows))
         ELSE ValidRows(Tail(rows))

\* A load that puts every row on the queue, valid or not.
load_profile_urls_unfiltered(queue, source) == queue \o source

\* load_profile_urls(source): every valid row is put on the queue.
load_profile_urls(queue, source) == queue \o ValidRows(source)

\* _load_new_profiles: every valid row not yet in loaded_urls is put on the
\* queue and added to loaded_urls.
RECURSIVE NewRows(_, _)
NewRows(rows, loaded) ==
    IF rows = <<>> THEN <<>>
    ELSE IF IsProfileUrl(Head(rows)) /\ Head(rows) \notin loaded
         THEN <<Head(rows)>> \o NewRows(Tail(rows), loaded \cup {Head(rows)})
         ELSE NewRows(Tail(rows), loaded)

Range(seq) == {seq[i] : i \in 1 .. Len(seq)}

\* A loader or watcher pass has run: count it for the targets whose mark
\* step has failed.
CountPass(h) ==
    [h EXCEPT !.passes =
        [t \in Targets |-> IF t \in h.mark_failed /\ h.passes[t] < 1
                           THEN h.passes[t] + 1 ELSE h.passes[t]]]

\* main(): load_profile_urls(args.profile_file), then start_scraping() up to
\* the start of the threads.
Main ==
    /\ ~started
    /\ LET queue == load_profile_urls(profile_queue, sourceFile)
       IN  /\ queue # <<>>
           /\ profile_queue' = queue
    /\ running' = TRUE
    /\ started' = TRUE
    /\ watcher' = [running |-> TRUE, loaded_urls |-> {}, dirty |-> TRUE]
    /\ hist' = CountPass(hist)
    /\ UNCHANGED <<clock, stateFile, profileStore, sourceFile, appends,
                   restarts, worker_count, results_queue, processed_profiles,
                   successful_profiles, worker, fx, db>>

\* ProfileFileWatcher._watch_loop: the initial load, and a load whenever the
\* file's modification time has advanced.
WatcherLoad ==
    /\ watcher.running
    /\ watcher.dirty
    /\ LET rows == NewRows(sourceFile, watcher.loaded_urls)
       IN  /\ profile_queue' = profile_queue \o rows
           /\ watcher' = [watcher EXCEPT
                            !.loaded_urls = @ \cup Range(rows),
                            !.dirty = FALSE]
    /\ hist' = CountPass(hist)
    /\ UNCHANGED <<clock, stateFile, profileStore, sourceFile, appends,
                   restarts, worker_count, running, started, results_queue,
                   processed_profiles, successful_profiles, worker, fx, db>>

\* The environment appends a row to the source file.
AppendSource ==
    /\ started
    /\ appends < MaxAppends
    /\ \E u \in Targets \cup {InvalidUrl} :
          sourceFile' = Append(sourceFile, u)
    /\ appends' = appends + 1
    /\ watcher' = [watcher EXCEPT !.dirty = TRUE]
    /\ UNCHANGED <<clock, stateFile, profileStore, restarts, worker_count,
                   running, started, profile_queue, results_queue,
                   processed_profiles, successful_profiles, worker, hist, fx, db>>

\* The wall clock advances by an hour.
Tick ==
    /\ started
    /\ clock < MaxClock
    /\ clock' = clock + 1
    /\ UNCHANGED <<stateFile, profileStore, sourceFile, appends, restarts,
                   worker_count, running, started, profile_queue,
                   results_queue, processed_profiles, successful_profiles,
                   watcher, worker, hist, fx, db>>

(***************************************************************************)
(* One worker: PlaywrightProfileScraper driven by _worker_thread.          *)
(***************************************************************************)
\* datetime.fromisoformat of a stored string.
fromisoformat(ts) == IF ts.tag = "iso" THEN At(ts.t) ELSE NoTime

\* The cooldown test of _worker_thread (2472-2474) and scrape_profile
\* (647-648) that never holds.
InCooldownNow_ignored(wr, now) == FALSE

\* A cooldown test that looks at the flag alone, whatever the clock.
InCooldownNow_flag(wr, now) == wr.in_cooldown

\* worker.in_cooldown and worker.cooldown_until and remaining_cooldown > 0
InCooldownNow(wr, now) ==
    wr.in_cooldown /\ wr.cooldown_until.ok /\ now < wr.cooldown_until.t

\* scrape_profile 661-664
SessionLimitReached(wr, now) ==
    \/ wr.session_start_time.ok
          /\ now - wr.session_start_time.t >= MaxSessionHours
    \/ wr.profiles_scraped >= wr.max_profiles_per_session

\* _check_cooldown_state 940-953: the worker's entry of the loaded dict
\* restores in_cooldown and cooldown_until.
RestoreCooldown(wr, w, st, now) ==
    LET ws == st.cooldown[w]
        until == fromisoformat(ws.cooldown_until)
    IN  IF ws.in_cooldown /\ until.ok
        THEN IF now < until.t
             THEN [wr EXCEPT !.in_cooldown = TRUE, !.cooldown_until = until]
             ELSE [wr EXCEPT !.in_cooldown = FALSE, !.cooldown_until = NoTime]
        ELSE wr

\* _check_cooldown_state 955-960: the entry is cleared, whatever was
\* restored.
ClearCooldownEntry(st, w, wr) == SetCooldown(st, w, FALSE, NoneTs)

\* A return of scrape_profile after which the thread goes straight on with
\* its loop, without a result.
Return_unreported(wr, ok, why) ==
    [wr EXCEPT !.pc = "loop", !.ret = ok, !.outcome = why, !.state = NoState]

\* scrape_profile returns (None, or scraped_data when ok).
Return(wr, ok, why) ==
    [wr EXCEPT !.pc = "emit", !.ret = ok, !.outcome = why,
               !.state = NoState]

\* An exception leaves scrape_profile; _worker_thread logs it (2544-2546)
\* and goes on with its loop.
Raise(wr, why) ==
    [wr EXCEPT !.pc = "loop", !.ret = FALSE, !.outcome = "none",
               !.state = NoState, !.url = InvalidUrl,
               !.times = NoTimes, !.activity = NoActivity]

\* One agent object shared by every worker thread.
SetWorker_shared(w, wr) == worker' = [v \in Workers |-> wr]

SetWorker(w, wr) == worker' = [worker EXCEPT ![w] = wr]

\* _worker_thread 2451-2462 and initialize 163-235: the browser is launched
\* and _check_cooldown_state loads the state file; or the launch raises,
\* initialize returns False and the thread ends.
InitWorker(w) ==
    /\ started
    /\ w \in Pool
    /\ worker[w].pc = "start"
    /\ \/ SetWorker(w, [worker[w] EXCEPT !.pc = "exited"])
       \/ SetWorker(w, [RestoreCooldown(worker[w], w, stateFile, clock)
                          EXCEPT !.pc = "init_cc",
                                 !.browser = TRUE,
                                 !.state = Loaded(stateFile)])
    /\ UNCHANGED <<clock, stateFile, profileStore, sourceFile, appends,
                   restarts, worker_count, running, started, profile_queue,
                   results_queue, processed_profiles, successful_profiles,
                   watcher, hist, fx, db>>

\* An initialize that starts the session without resetting its count.
AfterCooldownCheck_counting(wr, now) ==
    IF wr.in_cooldown
    THEN {[wr EXCEPT !.state = NoState]}
    ELSE {[wr EXCEPT !.state = NoState, !.session_start_time = At(now),
                     !.is_logged_in = b] : b \in BOOLEAN}

\* initialize 236-287 after _check_cooldown_state: a worker in cooldown
\* returns at once; otherwise the session starts, and the feed either loads
\* (logged in or not) or the navigation raises and initialize returns False.
AfterCooldownCheck(wr, now) ==
    IF wr.in_cooldown
    THEN {[wr EXCEPT !.state = NoState]}
    ELSE LET s == [wr EXCEPT !.state = NoState,
                             !.session_start_time = At(now),
                             !.profiles_scraped = 0,
                             !.caps = IF @ = "drawn" THEN "in_use"
                                      ELSE "reused"]
         IN  {[s EXCEPT !.is_logged_in = b] : b \in BOOLEAN}
               \cup {[s EXCEPT !.browser = FALSE]}

\* _check_cooldown_state 955-960 (save_state) and the rest of initialize,
\* called by _worker_thread.
InitSave(w) ==
    /\ worker[w].pc = "init_cc"
    /\ stateFile' = ClearCooldownEntry(worker[w].state.dict, w, worker[w])
    /\ \E wr \in AfterCooldownCheck(worker[w], clock) :
          SetWorker(w, [wr EXCEPT
                          !.pc = IF wr.browser THEN "loop" ELSE "exited",
                          !.last_profile_time = clock])
    /\ UNCHANGED <<clock, profileStore, sourceFile, appends, restarts,
                   worker_count, running, started, profile_queue,
                   results_queue, processed_profiles, successful_profiles,
                   watcher, hist, fx, db>>

\* scrape_profile 643-667, for the worker record wr as it enters the call:
\* the session start, the cooldown test, and the session limits with their
\* cleanup() and initialize() up to the load of _check_cooldown_state.
ScrapeBegin(wr0, w, st, now) ==
    LET wr1 == IF wr0.session_start_time.ok
               THEN wr0
               ELSE [wr0 EXCEPT !.session_start_time = At(now)]
        wr2 == [wr1 EXCEPT !.in_cooldown = FALSE]
    IN  IF wr1.in_cooldown /\ now < wr1.cooldown_until.t
        THEN {Return(wr1, FALSE, "cooldown")}
        ELSE IF SessionLimitReached(wr2, now)
             THEN {[wr2 EXCEPT !.pc = "login", !.browser = FALSE],
                   [RestoreCooldown(wr2, w, st, now)
                      EXCEPT !.pc = "reinit_cc", !.browser = TRUE,
                             !.state = Loaded(st)]}
             ELSE {[wr2 EXCEPT !.pc = "login"]}

\* scrape_profile 652-658: an expired cooldown found on entry is cleared in
\* the state file.
ClearExpired(wr, w, st, now) ==
    IF wr.in_cooldown /\ ~(now < wr.cooldown_until.t)
    THEN SetCooldown(st, w, FALSE, NoneTs)
    ELSE st

\* A get that hands out the head of the queue and leaves it there.
QueueGet_peek(queue) == queue

\* profile_queue.get(timeout=5) (2490): the head is handed to the caller
\* and removed under the queue's own lock.
QueueGet(queue) == Tail(queue)

\* _worker_thread 2469-2517: the loop test, the cooldown test, the dequeue
\* and the call of scrape_profile, up to its first access of the state file.
Dequeue(w) ==
    /\ worker[w].pc = "loop"
    /\ running
    /\ ~InCooldownNow(worker[w], clock)
    /\ profile_queue # <<>>
    /\ hist.dequeues < MaxDequeues
    /\ hist' = [hist EXCEPT !.dequeues = @ + 1]
    /\ LET wr == [worker[w] EXCEPT !.in_cooldown = FALSE,
                                   !.url = Head(profile_queue),
                                   !.last_profile_time = clock]
           st == ClearExpired(wr, w, stateFile, clock)
       IN  /\ stateFile' = st
           /\ \E next \in ScrapeBegin(wr, w, st, clock) : SetWorker(w, next)
    /\ profile_queue' = QueueGet(profile_queue)
    /\ UNCHANGED <<clock, profileStore, sourceFile, appends, restarts,
                   worker_count, running, started, results_queue,
                   processed_profiles, successful_profiles, watcher, fx, db>>

\* _worker_thread 2478-2480 with an empty queue: the expired cooldown flag
\* is dropped and the thread sleeps.
CooldownExpired(w) ==
    /\ worker[w].pc = "loop"
    /\ running
    /\ worker[w].in_cooldown
    /\ ~InCooldownNow(worker[w], clock)
    /\ profile_queue = <<>>
    /\ SetWorker(w, [worker[w] EXCEPT !.in_cooldown = FALSE])
    /\ UNCHANGED <<clock, stateFile, profileStore, sourceFile, appends,
                   restarts, worker_count, running, started, profile_queue,
                   results_queue, processed_profiles, successful_profiles,
                   watcher, hist, fx, db>>

\* _worker_thread 2482-2486 and refresh_session 966-992: after thirty idle
\* minutes the session is refreshed and its start time reset.
RefreshSession(w) ==
    /\ worker[w].pc = "loop"
    /\ running
    /\ ~InCooldownNow(worker[w], clock)
    /\ clock - worker[w].last_profile_time >= IdleRefreshHours
    /\ \/ \E b \in BOOLEAN :
             SetWorker(w, [worker[w] EXCEPT !.in_cooldown = FALSE,
                                            !.is_logged_in = b,
                                            !.session_start_time = At(clock),
                                            !.last_profile_time = clock])
       \/ SetWorker(w, [worker[w] EXCEPT !.in_cooldown = FALSE,
                                         !.last_profile_time = clock])
    /\ UNCHANGED <<clock, stateFile, profileStore, sourceFile, appends,
                   restarts, worker_count, running, started, profile_queue,
                   results_queue, processed_profiles, successful_profiles,
                   watcher, hist, fx, db>>

\* _worker_thread 2469, 2547-2556: the loop ends once running is false.
WorkerExit(w) ==
    /\ worker[w].pc = "loop"
    /\ ~running
    /\ SetWorker(w, [worker[w] EXCEPT !.pc = "exited", !.browser = FALSE])
    /\ UNCHANGED <<clock, stateFile, profileStore, sourceFile, appends,
                   restarts, worker_count, running, started, profile_queue,
                   results_queue, processed_profiles, successful_profiles,
                   watcher, hist, fx, db>>

\* _check_cooldown_state 955-960 (save_state) and the rest of initialize,
\* called by scrape_profile (667), which ignores what it returns.
ReinitSave(w) ==
    /\ worker[w].pc = "reinit_cc"
    /\ stateFile' = ClearCooldownEntry(worker[w].state.dict, w, worker[w])
    /\ \E wr \in AfterCooldownCheck(worker[w], clock) :
          SetWorker(w, [wr EXCEPT !.pc = "login"])
    /\ UNCHANGED <<clock, profileStore, sourceFile, appends, restarts,
                   worker_count, running, started, profile_queue,
                   results_queue, processed_profiles, successful_profiles,
                   watcher, hist, fx, db>>

\* login() 471-552 as scrape_profile sees it: logged in, not logged in
\* (returns False), or an exception of page.goto that leaves scrape_profile.
LoginOutcomes(wr) ==
    IF wr.is_logged_in
    THEN {wr}
    ELSE IF ~wr.browser
         THEN {Raise(wr, "login_raised")}
         ELSE {[wr EXCEPT !.is_logged_in = TRUE],
               Return(wr, FALSE, "login_failed"),
               Raise(wr, "login_raised")}

\* scrape_profile 676-686: the state file is loaded; a processed URL is
\* skipped, otherwise its stored markers are read.
CheckProcessed(wr, st) ==
    IF InSeq(wr.url, st.processed_urls)
    THEN Return(wr, FALSE, "already_processed")
    ELSE [wr EXCEPT !.pc = "fetch", !.times = st.times[wr.url].last]

\* scrape_profile 669-686
LoginCheck(w) ==
    /\ worker[w].pc = "login"
    /\ \E wr \in LoginOutcomes(worker[w]) :
          /\ IF wr.pc = "login"
             THEN SetWorker(w, CheckProcessed(wr, stateFile))
             ELSE SetWorker(w, wr)
          /\ hist' = IF wr.outcome = "login_failed"
                     THEN [hist EXCEPT !.auth_failed = @ \cup {w}]
                     ELSE hist
    /\ UNCHANGED <<clock, stateFile, profileStore, sourceFile, appends,
                   restarts, worker_count, running, started, profile_queue,
                   results_queue, processed_profiles, successful_profiles,
                   watcher, fx, db>>

\* Raw batches of one kind that a fetch of the pool may find.
PoolStamps == {Iso(t) : t \in 1 .. MaxStamp}
\* Kinds whose activity tab has rows when a worker of the pool visits it;
\* the other tabs are empty.
FeedKinds == {"post"}
RECURSIVE BatchesUpTo(_, _)
BatchesUpTo(n, stamps) ==
    IF n = 0 THEN {<<>>}
    ELSE LET shorter == BatchesUpTo(n - 1, stamps)
         IN  shorter \cup
               {Append(b, [id |-> Len(b) + 1, timestamp |-> ts]) :
                    b \in {c \in shorter : Len(c) = n - 1}, ts \in stamps}
PoolBatches == BatchesUpTo(MaxPoolBatch, PoolStamps)

\* scrape_user_activity 1536-1681: each kind's rows are extracted against
\* the kind's marker; a kind's marker moves only to a truthy most-recent
\* time.
scrape_user_activity(batches, last_times, now) ==
    LET r == [k \in Kinds |->
                 extract_kind(batches[k], last_times[k], MaxPerKind, now)]
    IN  [activity |-> [k \in Kinds |-> r[k].filtered],
         new_times |-> [k \in Kinds |->
                           new_time(last_times[k], r[k].most_recent)]]

\* A failed navigation that is handled as a block: the worker is put into
\* cooldown.
NavigationFailed_as_block(wr) ==
    Return([wr EXCEPT !.in_cooldown = TRUE], FALSE, "nav_failed")

\* scrape_profile 703-712 and 776-779: the navigation returns False or
\* times out; scrape_profile logs it and returns None.
NavigationFailed(wr) == Return(wr, FALSE, "nav_failed")

\* scrape_profile 697-751: the navigation, the block check and the
\* extraction (config scrape_activity is True, line 96), up to the next
\* access of the state file: the load of _enter_cooldown (926) after a
\* block, the load of 751 after an extraction.
Fetch(w) ==
    /\ worker[w].pc = "fetch"
    /\ \/ /\ SetWorker(w, NavigationFailed(worker[w]))
          /\ UNCHANGED hist
       \/ /\ worker[w].browser
          /\ \E h \in CooldownHours :
                /\ SetWorker(w, [worker[w] EXCEPT
                                   !.pc = "cd_save",
                                   !.in_cooldown = TRUE,
                                   !.cooldown_until = At(clock + h),
                                   !.state = Loaded(stateFile)])
                /\ UNCHANGED hist
       \/ /\ worker[w].browser
          /\ \E batches \in {b \in [Kinds -> PoolBatches] :
                                  \A k \in Kinds \ FeedKinds : b[k] = <<>>} :
                LET got == scrape_user_activity(batches, worker[w].times,
                                                clock)
                IN  SetWorker(w, [worker[w] EXCEPT
                                    !.pc = "ckpt_save",
                                    !.activity = got.activity,
                                    !.times = got.new_times,
                                    !.state = Loaded(stateFile)])
          /\ hist' = [hist EXCEPT !.fetchers[worker[w].url] = @ \cup {w}]
    /\ UNCHANGED <<clock, stateFile, profileStore, sourceFile, appends,
                   restarts, worker_count, running, started, profile_queue,
                   results_queue, processed_profiles, successful_profiles,
                   watcher, fx, db>>

\* _enter_cooldown 927-935 and scrape_profile 730: the cooldown entry is
\* saved, or the save fails and is only logged; scrape_profile returns None.
CooldownSave(w) ==
    /\ worker[w].pc = "cd_save"
    /\ \/ /\ stateFile' = SetCooldown(worker[w].state.dict, w, TRUE,
                                      isoformat(worker[w].cooldown_until))
          /\ hist' = [hist EXCEPT !.entered[w] = worker[w].cooldown_until]
       \/ UNCHANGED <<stateFile, hist>>
    /\ SetWorker(w, Return(worker[w], FALSE, "blocked"))
    /\ UNCHANGED <<clock, profileStore, sourceFile, appends, restarts,
                   worker_count, running, started, profile_queue,
                   results_queue, processed_profiles, successful_profiles,
                   watcher, fx, db>>

\* scrape_profile 752-756: state[profile_url] = new_times is saved and the
\* profile counted; or save_state raises and scrape_profile returns None.
CheckpointSave(w) ==
    /\ worker[w].pc = "ckpt_save"
    /\ \/ /\ stateFile' = SetTimes(worker[w].state.dict, worker[w].url,
                                   worker[w].times)
          /\ SetWorker(w, [worker[w] EXCEPT
                             !.pc = "persist",
                             !.state = NoState,
                             !.profiles_scraped = @ + 1])
          /\ hist' = [hist EXCEPT
                        !.wrote = @ \cup {worker[w].url},
                        !.high[worker[w].url] =
                            [k \in Kinds |-> LaterOf(@[k], worker[w].times[k])]]
       \/ /\ SetWorker(w, Return(worker[w], FALSE, "ckpt_write_failed"))
          /\ hist' = [hist EXCEPT !.write_failed = @ \cup {w}]
          /\ UNCHANGED stateFile
    /\ UNCHANGED <<clock, profileStore, sourceFile, appends, restarts,
                   worker_count, running, started, profile_queue,
                   results_queue, processed_profiles, successful_profiles,
                   watcher, fx, db>>

\* A failed _save_profile_data that is only logged: scrape_profile goes on
\* to mark the profile processed.
AfterStoreFailure_swallowed(wr) == [wr EXCEPT !.pc = "mark_load"]

\* scrape_profile 761-763: _save_profile_data raised; None is returned.
AfterStoreFailure(wr) == Return(wr, FALSE, "store_write_failed")

\* scrape_profile 758-763: _save_profile_data replaces the profile's
\* activity rows (1870-1945), or raises.
SaveProfileData(w) ==
    /\ worker[w].pc = "persist"
    /\ \/ /\ profileStore' =
                [profileStore EXCEPT ![worker[w].url] =
                    [present |-> TRUE,
                     activity |-> [k \in Kinds |->
                         save_activity_rows(@.activity[k],
                                            worker[w].activity[k])]]]
          /\ SetWorker(w, [worker[w] EXCEPT !.pc = "mark_load"])
          /\ UNCHANGED hist
       \/ /\ SetWorker(w, AfterStoreFailure(worker[w]))
          /\ hist' = [hist EXCEPT !.write_failed = @ \cup {w}]
          /\ UNCHANGED profileStore
    /\ UNCHANGED <<clock, stateFile, sourceFile, appends, restarts,
                   worker_count, running, started, profile_queue,
                   results_queue, processed_profiles, successful_profiles,
                   watcher, fx, db>>

\* The mark step without its membership test.
mark_processed_always(st, url) == AppendProcessed(st, url)

\* scrape_profile 768-771: the URL is appended to processed_urls unless it
\* is there.
mark_processed(st, url) ==
    IF InSeq(url, st.processed_urls) THEN st ELSE AppendProcessed(st, url)

\* scrape_profile 767-775: the state file is loaded again; a URL already
\* in processed_urls needs no save and scraped_data is returned.
MarkLoad(w) ==
    /\ worker[w].pc = "mark_load"
    /\ IF mark_processed(stateFile, worker[w].url) = stateFile
       THEN /\ SetWorker(w, Return(worker[w], TRUE, "ok"))
            /\ hist' = [hist EXCEPT !.marked[worker[w].url] = @ + 1]
       ELSE /\ SetWorker(w, [worker[w] EXCEPT
                               !.pc = "mark_save",
                               !.state = Loaded(stateFile)])
            /\ UNCHANGED hist
    /\ UNCHANGED <<clock, stateFile, profileStore, sourceFile, appends,
                   restarts, worker_count, running, started, profile_queue,
                   results_queue, processed_profiles, successful_profiles,
                   watcher, fx, db>>

\* scrape_profile 771-779: the dict with the URL appended is saved and
\* scraped_data returned; or save_state raises and None is returned.
MarkSave(w) ==
    /\ worker[w].pc = "mark_save"
    /\ \/ /\ stateFile' = mark_processed(worker[w].state.dict, worker[w].url)
          /\ SetWorker(w, Return(worker[w], TRUE, "ok"))
          /\ hist' = [hist EXCEPT !.marked[worker[w].url] = @ + 1]
       \/ /\ SetWorker(w, Return(worker[w], FALSE, "mark_failed"))
          /\ hist' = [hist EXCEPT
                        !.mark_failed = @ \cup {worker[w].url},
                        !.passes[worker[w].url] = 0]
          /\ UNCHANGED stateFile
    /\ UNCHANGED <<clock, profileStore, sourceFile, appends, restarts,
                   worker_count, running, started, profile_queue,
                   results_queue, processed_profiles, successful_profiles,
                   watcher, fx, db>>

\* _worker_thread 2519-2542: the result is put on the results queue; the
\* thread sleeps and loops.
Emit(w) ==
    /\ worker[w].pc = "emit"
    /\ results_queue' = Append(results_queue,
                               [url |-> worker[w].url,
                                success |-> worker[w].ret,
                                worker_id |-> w])
    /\ SetWorker(w, [worker[w] EXCEPT !.pc = "loop",
                                      !.url = InvalidUrl,
                                      !.ret = FALSE,
                                      !.outcome = "none",
                                      !.times = NoTimes,
                                      !.activity = NoActivity])
    /\ hist' = [hist EXCEPT !.write_failed = @ \ {w}]
    /\ UNCHANGED <<clock, stateFile, profileStore, sourceFile, appends,
                   restarts, worker_count, running, started, profile_queue,
                   processed_profiles, successful_profiles, watcher, fx, db>>

\* A counter update that takes every result for a success.
CountSuccess_any(result, successful) == successful + 1

\* _result_processor 2571-2572: if result['success']:
\* self.successful_profiles += 1
CountSuccess(result, successful) ==
    IF result.success THEN successful + 1 ELSE successful

\* _result_processor 2558-2582
ResultProcessor ==
    /\ started
    /\ results_queue # <<>>
    /\ processed_profiles' = processed_profiles + 1
    /\ successful_profiles' =
          CountSuccess(Head(results_queue), successful_profiles)
    /\ results_queue' = Tail(results_queue)
    /\ UNCHANGED <<clock, stateFile, profileStore, sourceFile, appends,
                   restarts, worker_count, running, started, profile_queue,
                   watcher, worker, hist, fx, db>>

\* _signal_handler 2628-2632 and _shutdown 2643-2661
Shutdown ==
    /\ running
    /\ running' = FALSE
    /\ watcher' = [watcher EXCEPT !.running = FALSE]
    /\ profile_queue' = <<>>
    /\ UNCHANGED <<clock, stateFile, profileStore, sourceFile, appends,
                   restarts, worker_count, started, results_queue,
                   processed_profiles, successful_profiles, worker, hist, fx, db>>

\* The process ends (a crash, a kill, the forced exit of 2635-2638) and
\* main() is run again: everything in memory is lost, the state file, the
\* database and the source file stay.
Restart ==
    /\ started
    /\ restarts < MaxRestarts
    /\ restarts' = restarts + 1
    /\ running' = FALSE
    /\ started' = FALSE
    /\ profile_queue' = <<>>
    /\ results_queue' = <<>>
    /\ processed_profiles' = 0
    /\ successful_profiles' = 0
    /\ watcher' = [running |-> FALSE, loaded_urls |-> {}, dirty |-> FALSE]
    /\ \E c \in SessionCaps :
          worker' = [w \in Workers |->
                        IF w \in Pool THEN NewWorker(c)
                        ELSE NewWorker(MinSessionProfiles)]
    /\ hist' = [hist EXCEPT !.write_failed = {}, !.auth_failed = {}]
    /\ UNCHANGED <<clock, stateFile, profileStore, sourceFile, appends,
                   worker_count, fx, db>>

WorkerTimed(w) ==
    \/ CooldownExpired(w)
    \/ RefreshSession(w)
    \/ ReinitSave(w)

WorkerStep(w) ==
    \/ InitWorker(w)
    \/ InitSave(w)
    \/ Dequeue(w)
    \/ WorkerExit(w)
    \/ LoginCheck(w)
    \/ Fetch(w)
    \/ CooldownSave(w)
    \/ CheckpointSave(w)
    \/ SaveProfileData(w)
    \/ MarkLoad(w)
    \/ MarkSave(w)
    \/ Emit(w)

PoolNext ==
    \/ Main
    \/ WatcherLoad
    \/ ResultProcessor
    \/ Shutdown
    \/ \E w \in Workers : WorkerStep(w)

Init == PoolInit(NumWorkers) /\ fx = FxIdle /\ db = EmptyTable
Next == PoolNext
Spec == Init /\ [][Next]_vars

\* The pool with its threads scheduled: every worker thread is an operating
\* system thread of its own (_init_workers, start_scraping), so a worker
\* whose next step stays possible takes it.
SpecLive == Spec /\ \A w \in Workers : WF_vars(WorkerStep(w))

InitMain == PoolInit(1) /\ fx = FxIdle /\ db = EmptyTable
NextMain ==
    \/ PoolNext
    \/ \E w \in Workers : WorkerTimed(w)
    \/ AppendSource
    \/ Tick
    \/ Restart
SpecMain == InitMain /\ [][NextMain]_vars

\* The timed pool of one worker within one run of main(), its threads
\* scheduled: a worker thread whose next step stays possible takes it.
\* The clock is not under the program's control and gets no fairness.
NextCooldown ==
    \/ PoolNext
    \/ \E w \in Workers : WorkerTimed(w)
    \/ Tick
SpecCooldown ==
    /\ InitMain
    /\ [][NextCooldown]_vars
    /\ \A w \in Workers : WF_vars(WorkerStep(w) \/ WorkerTimed(w))

\* One worker whose max_profiles_per_session has been set to SessionCapOne
\* after construction, so that the cap is reached after one profile; the
\* reinitialization of scrape_profile is then part of the run.
InitSession ==
    PoolInitWith(1, {SessionCapOne}) /\ fx = FxIdle /\ db = EmptyTable
NextSession == PoolNext \/ (\E w \in Workers : ReinitSave(w))
SpecSession == InitSession /\ [][NextSession]_vars

PoolIdle ==
    /\ clock = 0
    /\ stateFile = EmptyState
    /\ profileStore = [t \in Targets |-> NoRow]
    /\ sourceFile = <<>>
    /\ appends = 0
    /\ restarts = 0
    /\ worker_count = 0
    /\ running = FALSE
    /\ started = FALSE
    /\ profile_queue = <<>>
    /\ results_queue = <<>>
    /\ processed_profiles = 0
    /\ successful_profiles = 0
    /\ watcher = [running |-> FALSE, loaded_urls |-> {}, dirty |-> FALSE]
    /\ worker = [w \in Workers |-> NewWorker(MinSessionProfiles)]
    /\ hist = HistInit

InitFilter == PoolIdle /\ FxInit /\ db = EmptyTable
NextFilter ==
    \/ \E ts \in FeedStamps : FxRow(ts)
    \/ FxPass
    \/ FxTick
SpecFilter == InitFilter /\ [][NextFilter]_vars

(***************************************************************************)
(* SpecStore: the mark step of scrape_profile applied to                   *)
(* linkedin_state.json, and DatabaseStateManager.mark_processed applied to *)
(* the processed_profiles table, called again and again while the clock    *)
(* advances.  fx counts the calls made for each URL on each store, and     *)
(* keeps the arguments of the last call on the table.                      *)
(***************************************************************************)
NoArgs == [worker_id |-> 0, status |-> "none"]
StoreIdle ==
    [phase |-> "store",
     json_calls |-> [t \in Targets |-> 0],
     db_calls |-> [t \in Targets |-> 0],
     db_args |-> [t \in Targets |-> NoArgs],
     db_same |-> [t \in Targets |-> FALSE]]

\* Statuses mark_processed is called with.
Statuses == {"completed", "failed"}

storeFrame ==
    <<profileStore, sourceFile, appends, restarts, worker_count, running,
      started, profile_queue, results_queue, processed_profiles,
      successful_profiles, watcher, worker, hist>>

\* scrape_profile 767-772 run to its end: load_state, the membership test,
\* the append, save_state.
JsonMark(u) ==
    /\ fx.phase = "store"
    /\ fx.json_calls[u] < MaxCalls
    /\ stateFile' = mark_processed(stateFile, u)
    /\ fx' = [fx EXCEPT !.json_calls[u] = @ + 1]
    /\ UNCHANGED <<clock, db, storeFrame>>

\* DatabaseStateManager.mark_processed(profile_url, worker_id, status=...)
DbMark(u, wid, status) ==
    /\ fx.phase = "store"
    /\ fx.db_calls[u] < MaxCalls
    /\ db' = db_mark_processed(db, u, wid, status, clock)
    /\ fx' = [fx EXCEPT
                !.db_calls[u] = @ + 1,
                !.db_args[u] = [worker_id |-> wid, status |-> status],
                !.db_same[u] =
                    fx.db_calls[u] >= 1
                      /\ fx.db_args[u] = [worker_id |-> wid,
                                          status |-> status]]
    /\ UNCHANGED <<clock, stateFile, storeFrame>>

\* Time passes between two calls.
StoreTick ==
    /\ fx.phase = "store"
    /\ clock < MaxClock
    /\ clock' = clock + 1
    /\ UNCHANGED <<stateFile, fx, db, storeFrame>>

InitStore == PoolIdle /\ fx = StoreIdle /\ db = EmptyTable
NextStore ==
    \/ \E u \in Targets : JsonMark(u)
    \/ \E u \in Targets, wid \in Workers, status \in Statuses :
          DbMark(u, wid, status)
    \/ StoreTick
SpecStore == InitStore /\ [][NextStore]_vars

(***************************************************************************)
(* SpecMerge: normalize_profile of src/test.py applied to the activity of  *)
(* one scraped profile: extract_social_activity_by_profile builds, per     *)
(* engaged profile URL, the list of activity records, and                  *)
(* merge_social_activities groups each list by post text.  The profile has *)
(* no employment history, so current_company is None and the company       *)
(* filters are off.  A text is a core (what it says) in a form: "norm" is  *)
(* the lower-case, single-spaced, stripped form, "raw" a form of the same  *)
(* core with other case and spacing.  A URL is likewise an identity in a   *)
(* form, "raw" carrying a trailing slash, a query or upper-case letters.   *)
(***************************************************************************)
Txt(core, form) == [core |-> core, form |-> form]
EmptyText == Txt(0, "norm")
PostTexts == {Txt(1, "norm"), Txt(1, "raw"), Txt(2, "norm")}
CommentTexts == {Txt(3, "norm"), Txt(4, "norm")}
EmptyUrl == Txt(0, "norm")
EngagedUrls == {Txt(1, "norm"), Txt(1, "raw"), Txt(2, "norm"), EmptyUrl}
MergeStamps == {Rel("d", 1), Rel("d", RecentWindowDays + 5)}
SocialKinds == {"post", "comment", "reaction"}

\* text.strip().lower() with runs of whitespace collapsed
normalize_text(text) == [text EXCEPT !.form = "norm"]

\* scheme://netloc/path, without a trailing slash, in lower case
normalize_url(url) == [url EXCEPT !.form = "norm"]

\* parse_relative_date: a number and a unit of hours, days, weeks, months
\* or years before now; None for anything else.
parse_relative_date(ts, now) ==
    CASE ts.tag = "rel" /\ ts.unit = "h" -> At(now - ts.num)
      [] ts.tag = "rel" /\ ts.unit = "d" -> At(now - ts.num * HoursPerDay)
      [] ts.tag = "rel" /\ ts.unit = "w" ->
            At(now - ts.num * DaysPerWeek * HoursPerDay)
      [] ts.tag = "rel" /\ ts.unit = "mo" ->
            At(now - ts.num * DaysPerMonth * HoursPerDay)
      [] ts.tag = "rel" /\ ts.unit = "yr" ->
            At(now - ts.num * DaysPerYear * HoursPerDay)
      [] OTHER -> NoTime

\* is_recent(timestamp, window=RECENT_WINDOW)
is_recent(ts, now) ==
    LET date == parse_relative_date(ts, now)
    IN  date.ok /\ date.t >= now - RecentWindowDays * HoursPerDay

NormUrls == {normalize_url(u) : u \in EngagedUrls \ {EmptyUrl}}
EmptyMap == [u \in NormUrls |-> <<>>]

\* A lookup that never finds an existing entry.
FirstHit_none(hits) == 0

\* The first position of seq that satisfies the test, or 0.
FirstHit(hits) ==
    IF hits = {} THEN 0 ELSE CHOOSE i \in hits : \A j \in hits : i <= j

\* add_activity: a record for the engaged URL; a record with the same
\* normalized post text and comment already in the URL's list takes the
\* source instead.
add_activity(activity_map, target_url, post_text, comment, source, timestamp) ==
    IF target_url = EmptyUrl
    THEN activity_map
    ELSE LET url == normalize_url(target_url)
             list == activity_map[url]
             i == FirstHit({j \in 1 .. Len(list) :
                     /\ normalize_text(list[j].post_text)
                           = normalize_text(post_text)
                     /\ normalize_text(list[j].comment)
                           = normalize_text(comment)})
         IN  IF i > 0
             THEN IF InSeq(source, list[i].source)
                  THEN activity_map
                  ELSE [activity_map EXCEPT
                          ![url][i].source = Append(@, source)]
             ELSE [activity_map EXCEPT
                     ![url] = Append(@, [post_text |-> post_text,
                                         comment |-> comment,
                                         timestamp |-> timestamp,
                                         source |-> <<source>>])]

\* One of the three loops of extract_social_activity_by_profile: rows that
\* are not recent are skipped, the others go to add_activity.
RECURSIVE AddRows(_, _, _, _)
AddRows(activity_map, rows, source, now) ==
    IF rows = <<>>
    THEN activity_map
    ELSE LET row == Head(rows)
         IN  IF ~is_recent(row.timestamp, now)
             THEN AddRows(activity_map, Tail(rows), source, now)
             ELSE AddRows(add_activity(activity_map, row.url, row.text,
                                       row.comment, source, row.timestamp),
                          Tail(rows), source, now)

\* deduplicate_activities: the first record of each (post text, comment,
\* post_url) key; the records carry no post_url.
RECURSIVE DedupLoop(_, _, _)
DedupLoop(records, seen, unique) ==
    IF records = <<>>
    THEN unique
    ELSE LET rec == Head(records)
             key == <<normalize_text(rec.post_text),
                      normalize_text(rec.comment), normalize_url(EmptyUrl)>>
         IN  IF key \in seen
             THEN DedupLoop(Tail(records), seen, unique)
             ELSE DedupLoop(Tail(records), seen \cup {key},
                            Append(unique, rec))

deduplicate_activities(records) == DedupLoop(records, {}, <<>>)

extract_social_activity_by_profile(act, now) ==
    LET posts == AddRows(EmptyMap, act.post, "post", now)
        comments == AddRows(posts, act.comment, "comment", now)
        reactions == AddRows(comments, act.reaction, "reaction", now)
    IN  [u \in NormUrls |-> deduplicate_activities(reactions[u])]

\* The sources of a record added to an action's source list, each once.
RECURSIVE MergeSources(_, _)
MergeSources(into, sources) ==
    IF sources = <<>>
    THEN into
    ELSE MergeSources(IF InSeq(Head(sources), into)
                      THEN into
                      ELSE Append(into, Head(sources)),
                      Tail(sources))

\* A group key that keeps case and spacing.
MergeKey_raw(act) == act.post_text

\* key = normalize_text(act["post_text"])
MergeKey(act) == normalize_text(act.post_text)

\* merge_social_activities: one group per key, in order of first
\* appearance, with one action slot that collects the sources, and the
\* comment and its timestamp once "comment" is among the sources.
RECURSIVE MergeLoop(_, _)
MergeLoop(activity_list, grouped) ==
    IF activity_list = <<>>
    THEN grouped
    ELSE LET act == Head(activity_list)
             key == MergeKey(act)
             at == FirstHit({j \in 1 .. Len(grouped) : grouped[j].key = key})
             groups == IF at > 0
                       THEN grouped
                       ELSE Append(grouped,
                                   [key |-> key,
                                    post_text |-> act.post_text,
                                    source |-> <<>>,
                                    post_timestamp |-> act.timestamp,
                                    comment |-> EmptyText,
                                    comment_timestamp |-> NoneTs])
             i == IF at > 0 THEN at ELSE Len(groups)
             source == MergeSources(groups[i].source, act.source)
             commented == InSeq("comment", source)
         IN  MergeLoop(Tail(activity_list),
                       [groups EXCEPT
                          ![i].source = source,
                          ![i].comment_timestamp =
                              IF commented /\ act.timestamp # NoneTs
                              THEN act.timestamp ELSE @,
                          ![i].comment =
                              IF commented /\ act.comment # EmptyText
                              THEN act.comment ELSE @])

merge_social_activities(activity_list) == MergeLoop(activity_list, <<>>)

MergeIdle ==
    [phase |-> "collect",
     act |-> [k \in SocialKinds |-> <<>>],
     map |-> EmptyMap,
     out |-> EmptyMap]

\* The scraper has stored one more post, comment or reaction of the
\* profile in its activity.
SocialRow(kind, row) ==
    /\ fx.phase = "collect"
    /\ Len(fx.act.post) + Len(fx.act.comment) + Len(fx.act.reaction)
          < MaxRecords
    /\ kind # "comment" => row.comment = EmptyText
    /\ fx' = [fx EXCEPT !.act[kind] = Append(@, row)]
    /\ UNCHANGED <<poolVars, db>>

\* normalize_profile 259-265
NormalizeProfile ==
    /\ fx.phase = "collect"
    /\ LET activity_map == extract_social_activity_by_profile(fx.act, clock)
       IN  fx' = [fx EXCEPT
                    !.phase = "merged",
                    !.map = activity_map,
                    !.out = [u \in NormUrls |->
                               merge_social_activities(activity_map[u])]]
    /\ UNCHANGED <<poolVars, db>>

SocialRows ==
    [url : EngagedUrls, text : PostTexts,
     comment : CommentTexts \cup {EmptyText}, timestamp : MergeStamps]

InitMerge == PoolIdle /\ fx = MergeIdle /\ db = EmptyTable
NextMerge ==
    \/ \E kind \in SocialKinds : \E row \in SocialRows : SocialRow(kind, row)
    \/ NormalizeProfile
SpecMerge == InitMerge /\ [][NextMerge]_vars

\* The same run of normalize_profile over rows of one engaged profile and
\* one post text that carry different recent timestamps.
StampedRows ==
    [url : {Txt(1, "norm")}, text : {Txt(1, "norm"), Txt(1, "raw")},
     comment : {Txt(3, "norm"), EmptyText},
     timestamp : {Rel("d", n) : n \in 1 .. MaxRecords}]
NextMergeStamped ==
    \/ \E kind \in SocialKinds : \E row \in StampedRows :
          SocialRow(kind, row)
    \/ NormalizeProfile
SpecMergeStamped == InitMerge /\ [][NextMergeStamped]_vars

(***************************************************************************)
(* SpecProcess: the life of the process from main() to its exit.  fx holds *)
(* what the command line names (a credentials file that is absent from     *)
(* the command line, unreadable, an empty list or a list of one account;   *)
(* a profile file that is absent from the command line, unreadable or      *)
(* readable with the rows of `source`), the position of main(), the pool   *)
(* and queue sizes, the threads start_scraping runs, and the exit status.  *)
(* A worker thread is at its loop test ("test"), past the test and at its  *)
(* queue.get ("get"), inside scrape_profile ("busy") or in its delay of    *)
(* minutes ("sleep"); the result processor                                 *)
(* waits on its queue ("get"); the progress monitor sleeps a minute at a   *)
(* time ("sleep").                                                         *)
(***************************************************************************)
ThreadNames == {"worker", "results", "monitor"}
SourceRows ==
    UNION {[1 .. n -> Targets \cup {InvalidUrl}] : n \in 0 .. NumTargets}

ProcessInit ==
    \E c \in {"absent", "unreadable", "empty", "one"} :
       \E p \in {"absent", "unreadable", "readable"} :
          \E s \in SourceRows :
             fx = [phase |-> "process", pc |-> "args",
                   credentials |-> c, profile_file |-> p, source |-> s,
                   pool |-> 0, queue |-> <<>>, running |-> FALSE,
                   thread |-> [t \in ThreadNames |-> "none"],
                   draining |-> FALSE, force |-> FALSE, status |-> {}]

\* The process has ended with the given exit status; status is empty while
\* the process lives.
Exited(f, status) == [f EXCEPT !.pc = "exited", !.status = {status}]

\* main 2677-2689: --credentials-file is required; argparse ends the
\* process with status ArgparseStatus when it is missing.
ParseArgs ==
    /\ fx.phase = "process" /\ fx.pc = "args"
    /\ fx' = IF fx.credentials = "absent"
             THEN Exited(fx, ArgparseStatus)
             ELSE [fx EXCEPT !.pc = "creds"]
    /\ UNCHANGED <<poolVars, db>>

\* main 2690-2696: the credentials file is read; an error is logged and
\* main returns.
LoadCredentials ==
    /\ fx.phase = "process" /\ fx.pc = "creds"
    /\ fx' = IF fx.credentials = "unreadable"
             THEN Exited(fx, 0)
             ELSE [fx EXCEPT !.pc = "construct"]
    /\ UNCHANGED <<poolVars, db>>

\* main 2710, __init__ 2243-2274 and _init_workers 2294-2317: without
\* credentials the error is logged and the pool stays empty.
Construct ==
    /\ fx.phase = "process" /\ fx.pc = "construct"
    /\ fx' = [fx EXCEPT !.pc = "load",
                        !.pool = IF fx.credentials = "empty" THEN 0 ELSE 1]
    /\ UNCHANGED <<poolVars, db>>

\* main 2712-2717 and load_profile_urls 2319-2391: without --profile-file
\* the error is logged and main returns; a file that cannot be read leaves
\* the queue empty (2390-2391).
LoadProfiles ==
    /\ fx.phase = "process" /\ fx.pc = "load"
    /\ fx' = CASE fx.profile_file = "absent" -> Exited(fx, 0)
               [] fx.profile_file = "unreadable" -> [fx EXCEPT !.pc = "start"]
               [] OTHER ->
                    [fx EXCEPT !.pc = "start",
                               !.queue = load_profile_urls(<<>>, fx.source)]
    /\ UNCHANGED <<poolVars, db>>

\* start_scraping 2393-2440: with an empty queue it logs and returns, and
\* main returns; otherwise one thread per worker of the pool, the result
\* processor and the progress monitor are started and joined.
StartScraping ==
    /\ fx.phase = "process" /\ fx.pc = "start"
    /\ fx' = IF fx.queue = <<>>
             THEN Exited(fx, 0)
             ELSE [fx EXCEPT
                     !.pc = "join",
                     !.running = TRUE,
                     !.thread = [t \in ThreadNames |->
                                    CASE t = "worker" ->
                                           IF fx.pool > 0 THEN "test"
                                           ELSE "none"
                                      [] t = "results" -> "get"
                                      [] OTHER -> "sleep"]]
    /\ UNCHANGED <<poolVars, db>>

\* _worker_thread 2469-2546: the loop test 'while self.running' (2469),
\* which ends the thread once running is false; then the cooldown and idle
\* checks and profile_queue.get(timeout=5) (2490), which hands out the head
\* of the queue or, on queue.Empty, sends the thread back to the test;
\* then scrape_profile and the delay.  running is read at the test only.
WorkerTurn ==
    /\ fx.phase = "process" /\ fx.pc = "join"
    /\ \/ /\ fx.thread["worker"] = "test"
          /\ fx' = [fx EXCEPT !.thread["worker"] =
                                 IF fx.running THEN "get" ELSE "ended"]
       \/ /\ fx.thread["worker"] = "get"
          /\ fx' = IF fx.queue # <<>>
                   THEN [fx EXCEPT !.thread["worker"] = "busy",
                                   !.queue = Tail(@)]
                   ELSE [fx EXCEPT !.thread["worker"] = "test"]
       \/ /\ fx.thread["worker"] = "busy"
          /\ fx' = [fx EXCEPT !.thread["worker"] = "sleep"]
       \/ /\ fx.thread["worker"] = "sleep"
          /\ fx' = [fx EXCEPT !.thread["worker"] = "test"]
    /\ UNCHANGED <<poolVars, db>>

\* _result_processor 2560: while self.running or not
\* self.results_queue.empty()
ResultsEnd ==
    /\ fx.phase = "process" /\ fx.pc = "join"
    /\ fx.thread["results"] = "get"
    /\ ~fx.running
    /\ fx.thread["worker"] \in {"none", "test", "get", "ended"}
    /\ fx' = [fx EXCEPT !.thread["results"] = "ended"]
    /\ UNCHANGED <<poolVars, db>>

\* _progress_monitor 2586: while self.running or self.active_workers > 0,
\* tested after each sleep of a minute.
MonitorEnd ==
    /\ fx.phase = "process" /\ fx.pc = "join"
    /\ fx.thread["monitor"] = "sleep"
    /\ ~fx.running
    /\ fx.thread["worker"] \in {"none", "ended"}
    /\ fx' = [fx EXCEPT !.thread["monitor"] = "ended"]
    /\ UNCHANGED <<poolVars, db>>

\* _signal_handler 2628-2632 and _shutdown 2643-2649 on SIGINT or SIGTERM:
\* running is cleared; the file watcher is then stopped and joined for up
\* to two seconds before the queue is touched.
Signal ==
    /\ fx.phase = "process" /\ fx.pc = "join"
    /\ fx.running
    /\ fx' = [fx EXCEPT !.running = FALSE, !.draining = TRUE]
    /\ UNCHANGED <<poolVars, db>>

\* _shutdown 2651-2661 and _signal_handler 2634-2641: the queue is emptied
\* with get_nowait, and force_exit armed.
Drain ==
    /\ fx.phase = "process" /\ fx.pc = "join"
    /\ fx.draining
    /\ fx' = [fx EXCEPT !.draining = FALSE, !.queue = <<>>, !.force = TRUE]
    /\ UNCHANGED <<poolVars, db>>

\* A thread that may still be alive GraceSeconds after the signal: a worker
\* inside scrape_profile or in its delay, or the monitor in its sleep.
Lingering(f) ==
    \/ f.thread["worker"] \in {"busy", "sleep"}
    \/ f.thread["monitor"] = "sleep"

\* force_exit 2634-2638: os._exit(ForcedStatus) GraceSeconds after the
\* signal, while a thread is still alive.
ForceExit ==
    /\ fx.phase = "process" /\ fx.pc = "join"
    /\ fx.force
    /\ Lingering(fx)
    /\ fx' = Exited(fx, ForcedStatus)
    /\ UNCHANGED <<poolVars, db>>

\* start_scraping 2440-2449 and main: every thread has been joined (the
\* signal handler, which runs on the main thread, has returned),
\* start_scraping and main return, and the interpreter exits.
JoinedExit ==
    /\ fx.phase = "process" /\ fx.pc = "join"
    /\ ~fx.draining
    /\ \A t \in ThreadNames : fx.thread[t] \in {"none", "ended"}
    /\ fx' = Exited(fx, 0)
    /\ UNCHANGED <<poolVars, db>>

InitProcess == PoolIdle /\ ProcessInit /\ db = EmptyTable
NextProcess ==
    \/ ParseArgs
    \/ LoadCredentials
    \/ Construct
    \/ LoadProfiles
    \/ StartScraping
    \/ WorkerTurn
    \/ ResultsEnd
    \/ MonitorEnd
    \/ Signal
    \/ Drain
    \/ ForceExit
    \/ JoinedExit
SpecProcess == InitProcess /\ [][NextProcess]_vars

(***************************************************************************)
(* SpecPool: the constructor's _init_workers as a function of the          *)
(* configured worker_count, the credentials list and the proxies loaded by *)
(* _load_proxies.  Credentials and proxies are numbered identities; a      *)
(* Python list index i is position i + 1 of the sequence.                  *)
(***************************************************************************)
\* The lists of distinct identities 1 .. n, of every length up to n.
ListsOf(n) ==
    UNION {{s \in [1 .. k -> 1 .. n] :
               \A i, j \in 1 .. k : i # j => s[i] # s[j]} : k \in 0 .. n}

\* Every worker bound to the first entry of each list.
init_workers_first(count, credentials_list, proxies) ==
    IF credentials_list = <<>>
    THEN <<>>
    ELSE [k \in 1 .. count |->
            [worker_id |-> k - 1,
             credentials |-> credentials_list[1],
             proxy |-> IF proxies # <<>> THEN proxies[1] ELSE NoProxy]]

\* _init_workers 2294-2317: the worker_pool it builds for a worker_count
\* of count.
init_workers(count, credentials_list, proxies) ==
    IF credentials_list = <<>>
    THEN <<>>
    ELSE [k \in 1 .. count |->
            [worker_id |-> k - 1,
             credentials |->
                credentials_list[((k - 1) % Len(credentials_list)) + 1],
             proxy |-> IF proxies # <<>>
                       THEN proxies[((k - 1) % Len(proxies)) + 1]
                       ELSE NoProxy]]

InitPool ==
    /\ PoolIdle
    /\ db = EmptyTable
    /\ \E n \in 0 .. MaxPool :
          \E c \in ListsOf(MaxCredentials) :
             \E p \in ListsOf(MaxProxies) :
                fx = [phase |-> "pool", built |-> FALSE, worker_count |-> n,
                      credentials |-> c, proxies |-> p, worker_pool |-> <<>>]

\* LinkedInProfileScraper.__init__ 2243-2274: _init_workers() fills
\* worker_pool.
BuildPool ==
    /\ fx.phase = "pool"
    /\ ~fx.built
    /\ fx' = [fx EXCEPT
                !.built = TRUE,
                !.worker_pool =
                   init_workers(fx.worker_count, fx.credentials, fx.proxies)]
    /\ UNCHANGED <<poolVars, db>>

NextPool == BuildPool
SpecPool == InitPool /\ [][NextPool]_vars

(***************************************************************************)
(* SpecSim: one agent's asyncio event loop.  The worker thread runs one    *)
(* coroutine at a time with loop.run_until_complete (initialize,           *)
(* scrape_profile, refresh_session, cleanup); the activity simulation is a *)
(* task of the same loop, created by initialize, and a task of a loop      *)
(* makes progress only while the loop runs, that is at the awaits of the   *)
(* coroutine the thread is running.  fx holds the coroutine and its        *)
(* position, the task, and the page both of them drive.                    *)
(***************************************************************************)
InitSim ==
    /\ PoolIdle
    /\ db = EmptyTable
    /\ \E cookies \in BOOLEAN :
          fx = [phase |-> "sim", call |-> "idle", at |-> 0,
                initialized |-> FALSE, cookies |-> cookies,
                is_logged_in |-> FALSE, in_cooldown |-> FALSE,
                task |-> "none", page |-> "blank", content |-> "none",
                calls |-> 0]

\* _worker_thread 2461, 2484, 2517, 2549: loop.run_until_complete of
\* initialize, then of scrape_profile or refresh_session in the while
\* loop, and of cleanup in the finally block.
RunUntilComplete ==
    /\ fx.phase = "sim" /\ fx.call = "idle"
    /\ \/ /\ ~fx.initialized
          /\ fx' = [fx EXCEPT !.call = "initialize", !.at = 0]
       \/ /\ fx.initialized
          /\ fx.calls < MaxCalls
          /\ \E c \in {"scrape_profile", "refresh_session"} :
                fx' = [fx EXCEPT !.call = c, !.at = 0, !.calls = @ + 1,
                                 !.content = "none"]
       \/ /\ fx.initialized
          /\ fx' = [fx EXCEPT !.call = "cleanup", !.at = 0]
    /\ UNCHANGED <<poolVars, db>>

\* The coroutine the thread runs goes on to its next await or returns.
\* initialize 243-287: the feed is loaded, the session is restored from the
\* cookies or not, and start_activity_simulation creates the task.
\* scrape_profile 669-734: login if needed, the navigation to the profile,
\* _scroll_page, then the block check (_enter_cooldown) or page.content().
\* refresh_session 966-992: the home page is loaded.  cleanup 440-466: the
\* task is cancelled and the page closed.
CoroutineStep ==
    /\ fx.phase = "sim"
    /\ \/ /\ fx.call = "initialize" /\ fx.at = 0
          /\ fx' = [fx EXCEPT !.at = 1, !.page = "feed"]
       \/ /\ fx.call = "initialize" /\ fx.at = 1
          /\ fx' = [fx EXCEPT
                      !.call = "idle", !.initialized = TRUE,
                      !.is_logged_in = fx.cookies,
                      !.task = IF fx.cookies THEN "sleeping" ELSE "none"]
       \/ /\ fx.call = "scrape_profile" /\ fx.at = 0
          /\ fx' = [fx EXCEPT !.at = 1, !.is_logged_in = TRUE,
                              !.page = "profile"]
       \/ /\ fx.call = "scrape_profile" /\ fx.at = 1
          /\ fx' = [fx EXCEPT !.at = 2]
       \/ /\ fx.call = "scrape_profile" /\ fx.at = 2
          /\ \/ fx' = [fx EXCEPT !.call = "idle", !.in_cooldown = TRUE]
             \/ fx' = [fx EXCEPT !.call = "idle", !.content = fx.page]
       \/ /\ fx.call = "refresh_session"
          /\ fx' = [fx EXCEPT !.call = "idle", !.page = "home"]
       \/ /\ fx.call = "cleanup"
          /\ fx' = [fx EXCEPT !.call = "closed", !.page = "blank",
                              !.task = IF @ = "none" THEN "none"
                                       ELSE "ended"]
    /\ UNCHANGED <<poolVars, db>>

\* _activity_simulation_loop 325: the deadline of asyncio.sleep(300..900)
\* passes, whether the loop is running or the thread sleeps.
TimerDue ==
    /\ fx.phase = "sim"
    /\ fx.task = "sleeping"
    /\ fx' = [fx EXCEPT !.task = "due"]
    /\ UNCHANGED <<poolVars, db>>

\* _activity_simulation_loop 323-349 and _check_feed_activity 352-367: at
\* an await of the running coroutine the loop resumes the task, which ends
\* when the agent is logged out or in cooldown, and otherwise loads the
\* feed, then scrolls it and sleeps again.
SimulationStep ==
    /\ fx.phase = "sim"
    /\ fx.call \in {"initialize", "scrape_profile", "refresh_session"}
    /\ \/ /\ fx.task = "due"
          /\ fx' = IF ~fx.is_logged_in \/ fx.in_cooldown
                   THEN [fx EXCEPT !.task = "ended"]
                   ELSE [fx EXCEPT !.task = "scroll", !.page = "feed"]
       \/ /\ fx.task = "scroll"
          /\ fx' = [fx EXCEPT !.task = "sleeping"]
    /\ UNCHANGED <<poolVars, db>>

NextSim ==
    \/ RunUntilComplete
    \/ CoroutineStep
    \/ TimerDue
    \/ SimulationStep
SpecSim == InitSim /\ [][NextSim]_vars

(***************************************************************************)
(* Properties.                                                             *)
(***************************************************************************)
Occurrences(x, seq) == Cardinality({i \in 1 .. Len(seq) : seq[i] = x})

\* C8 (as the code has it): a second mark of a URL leaves
\* linkedin_state.json as the first left it, with the URL listed once; a
\* second identical DatabaseStateManager.mark_processed leaves the URL's one
\* row as it was except for processed_at, which is set to the time of the
\* call, and is_processed is true after either call with status completed.
C8_MarkTwiceAsOnce ==
    [][\A u \in Targets :
          /\ fx'.json_calls[u] > fx.json_calls[u] =>
                /\ Occurrences(u, stateFile'.processed_urls) = 1
                /\ fx.json_calls[u] >= 1 => stateFile' = stateFile
          /\ fx'.db_calls[u] > fx.db_calls[u] =>
                /\ db'[u].present
                /\ fx'.db_args[u].status = "completed" => is_processed(db', u)
                /\ fx'.db_same[u] =>
                      db' = [db EXCEPT ![u].processed_at = clock]
      ]_vars

\* C8 witness: a URL has been marked twice on both stores, the second call
\* on the table repeating the first, and is recorded as processed.
C8_Witness ==
    \E u \in Targets :
        /\ fx.phase = "store"
        /\ fx.json_calls[u] = 2
        /\ fx.db_calls[u] = 2
        /\ fx.db_same[u]
        /\ InSeq(u, stateFile.processed_urls)
        /\ is_processed(db, u)

\* C8 (as stated): the second of two identical mark calls changes nothing
\* in either store.
C8_AsStated ==
    [][\A u \in Targets :
          /\ (fx'.json_calls[u] > fx.json_calls[u] /\ fx.json_calls[u] >= 1)
                => stateFile' = stateFile
          /\ (fx'.db_calls[u] > fx.db_calls[u] /\ fx'.db_same[u])
                => db' = db
      ]_vars

\* Every worker is outside scrape_profile and initialize: all writers have
\* finished.
Quiescent == \A w \in Workers : worker[w].pc \in {"start", "loop", "exited"}

\* The positions of a worker inside scrape_profile past the cooldown test.
Busy ==
    {"login", "reinit_cc", "fetch", "ckpt_save", "persist", "mark_load",
     "mark_save"}

\* A stored marker is at least another one.
AtLeast(a, b) == LaterOf(a, b) = a

\* At least two targets have had their markers saved, each by one worker
\* of its own.
DistinctWriters ==
    /\ Cardinality(hist.wrote) >= 2
    /\ \A t \in Targets : Cardinality(hist.fetchers[t]) <= 1
    /\ \A t1, t2 \in hist.wrote :
          t1 # t2 => hist.fetchers[t1] # hist.fetchers[t2]

\* C1 (as stated): the workers save checkpoint state for distinct targets;
\* once all of them have finished, the state file holds the markers of
\* every target whose markers were saved and lists every target whose mark
\* step completed.
C1_AsStated ==
    (Quiescent /\ DistinctWriters)
        => \A t \in Targets :
              /\ t \in hist.wrote =>
                    /\ stateFile.times[t].present
                    /\ stateFile.times[t].last = hist.high[t]
              /\ hist.marked[t] > 0 => InSeq(t, stateFile.processed_urls)

\* C2 (as stated): two workers have saved markers for the same target; once
\* both have finished, each stored marker of the target is the latest one
\* either of them saved.
C2_AsStated ==
    Quiescent
        => \A t \in Targets :
              (Cardinality(hist.fetchers[t]) = 2 /\ hist.marked[t] = 2)
                 => /\ stateFile.times[t].present
                    /\ \A k \in Kinds :
                          AtLeast(stateFile.times[t].last[k], hist.high[t][k])

\* C3 (as stated): no step takes a stored marker of a target back: an entry
\* of the state file stays, and each of its three markers is at least what
\* it was.
C3_AsStated ==
    [][\A t \in Targets :
          stateFile.times[t].present =>
             /\ stateFile'.times[t].present
             /\ \A k \in Kinds :
                   AtLeast(stateFile'.times[t].last[k],
                           stateFile.times[t].last[k])
      ]_vars

C5_AsStated ==
    \A w \in Pool :
        (/\ hist.entered[w].ok
         /\ clock < hist.entered[w].t
         /\ worker[w].pc \notin {"start", "init_cc", "exited"})
           => /\ worker[w].in_cooldown
              /\ worker[w].cooldown_until = hist.entered[w]

\* C6 (as stated): when a pass of the loader or of the watcher ends after
\* the mark step of a target has failed, and the target is still not listed
\* as processed, the target is on the queue or in the hands of a worker.
C6_AsStated ==
    [][\A t \in Targets :
          (/\ hist'.passes[t] > hist.passes[t]
           /\ ~InSeq(t, stateFile.processed_urls))
             => \/ InSeq(t, profile_queue')
                \/ \E w \in Workers :
                      worker'[w].url = t /\ worker'[w].pc \in Busy
      ]_vars

\* C7: a worker whose save of the markers or whose _save_profile_data has
\* failed is about to return None from scrape_profile; its next step leaves
\* the state file as it is (the target is not marked processed) and puts a
\* result with success false for the target on the results queue.
C7_WriteFailureSurfaced ==
    [][\A w \in hist.write_failed :
          /\ worker[w].pc = "emit"
          /\ ~worker[w].ret
          /\ worker'[w] # worker[w] =>
                /\ stateFile' = stateFile
                /\ hist'.marked = hist.marked
                /\ results_queue' =
                      Append(results_queue,
                             [url |-> worker[w].url,
                              success |-> FALSE,
                              worker_id |-> w])
      ]_vars

\* C7 witness: _save_profile_data has failed for a target whose markers were
\* saved, the target is not listed as processed, and the unsuccessful result
\* is on the results queue.
C7_Witness ==
    \E i \in 1 .. Len(results_queue) :
        LET r == results_queue[i]
        IN  /\ ~r.success
            /\ r.url \in hist.wrote
            /\ hist.marked[r.url] = 0
            /\ hist.dequeues = 1
            /\ ~InSeq(r.url, stateFile.processed_urls)
            /\ ~profileStore[r.url].present

\* C9 (as stated): when the same raw batch has been fetched a second time,
\* against the marker the first fetch stored, nothing is emitted, the marker
\* is the one the first fetch stored, and the database rows are the ones the
\* first fetch left.
C9_AsStated ==
    fx.phase = "twice"
        => /\ fx.out = <<>>
           /\ fx.since = fx.first.since
           /\ fx.store = fx.first.store

\* Rows of the last fetch whose timestamp resolved, with the resolved time.
ResolvedAt(row) == parse_linkedin_timestamp(row.timestamp, fx.now)
KeptTimes == {ResolvedAt(fx.out[i]).t :
                 i \in {j \in 1 .. Len(fx.out) : ResolvedAt(fx.out[j]).ok}}
MaxOf(S) == CHOOSE x \in S : \A y \in S : y <= x

C11_AsStated ==
    fx.passes >= 1
        => \A i \in 1 .. Len(fx.data) :
              (~ResolvedAt(fx.data[i]).ok /\ InSeq(fx.data[i], fx.out))
                 => fx.cutoff = NoneTs

\* C12 (as stated): whichever of load_profile_urls and the file watcher
\* puts profiles on the queue, a target is on the queue at most once, and no
\* step puts a target on the queue while the state file lists it as
\* processed.
C12_AsStated ==
    [][\A t \in Targets :
          /\ Occurrences(t, profile_queue') <= 1
          /\ Occurrences(t, profile_queue') > Occurrences(t, profile_queue)
                => ~InSeq(t, stateFile.processed_urls)
      ]_vars

\* A worker thread that can take the next entry: the pool is running, the
\* thread has not ended, and the worker is not in cooldown.
Runnable(w) ==
    /\ running
    /\ w \in Pool
    /\ worker[w].pc # "exited"
    /\ ~worker[w].in_cooldown

\* The step takes worker w from its loop into scrape_profile.
Takes(w) ==
    /\ worker[w].pc = "loop"
    /\ worker'[w].pc \notin {"loop", "exited"}

\* C13: while the pool runs, an entry leaves the queue only as the head
\* handed to exactly one worker, which removes it; and, up to the number of
\* dequeues the model follows, an entry waiting on the queue does not stay
\* there for ever while some worker is runnable.
C13_DeliveredOnce ==
    /\ [][/\ \A w \in Workers :
                Takes(w) =>
                   /\ worker'[w].url = Head(profile_queue)
                   /\ profile_queue' = Tail(profile_queue)
                   /\ \A v \in Workers \ {w} : worker'[v] = worker[v]
          /\ (running' /\ Len(profile_queue') < Len(profile_queue))
                => \E w \in Workers : Takes(w)
        ]_vars
    /\ \A k \in 1 .. MaxDequeues :
          (hist.dequeues = k - 1 /\ profile_queue # <<>>)
             ~> (hist.dequeues >= k \/ ~(\E w \in Workers : Runnable(w)))

\* C13 witness: two entries were queued and each of the two workers has
\* taken one of them, leaving the queue empty.
C13_Witness ==
    /\ hist.dequeues = 2
    /\ profile_queue = <<>>
    /\ worker[0].url # InvalidUrl
    /\ worker[1].url # InvalidUrl
    /\ worker[0].pc \in Busy
    /\ worker[1].pc \in Busy

\* C14 (as stated): with one worker whose session cap is one, the worker
\* takes an entry from the queue only while its session is below the cap:
\* after the first profile the session is reinitialized before the second
\* entry is taken.
C14_AsStated ==
    [][\A w \in Workers :
          Takes(w) =>
             worker[w].profiles_scraped < worker[w].max_profiles_per_session
      ]_vars

\* C15 (as stated): a worker whose login has failed is withdrawn: from then
\* on it takes no entry from the queue.
C15_AsStated ==
    [][\A w \in Workers : Takes(w) => w \notin hist.auth_failed]_vars

\* C16 (as stated): when block detection has fired during a worker's fetch,
\* the worker is in cooldown with a window of MinCooldownHours to
\* MaxCooldownHours, and once the worker has handed in the result the
\* target is waiting on the queue again for a later fetch.
C16_AsStated ==
    [][\A w \in Workers :
          (worker[w].pc = "emit" /\ worker[w].outcome = "blocked"
             /\ worker'[w].pc = "loop")
             => /\ worker'[w].in_cooldown
                /\ worker'[w].cooldown_until.ok
                /\ InSeq(worker[w].url, profile_queue')
      ]_vars

\* C17: a navigation failure or timeout leaves the worker's cooldown flag,
\* its cooldown_until and the state file as they were; a worker's cooldown
\* flag is raised only by the step in which block detection reports a
\* block, or by initialize restoring a cooldown that an earlier block had
\* saved in the state file.
C17_TransientNoCooldown ==
    [][\A w \in Workers :
          /\ (worker[w].pc = "fetch" /\ worker'[w].outcome = "nav_failed")
                => /\ worker'[w].in_cooldown = worker[w].in_cooldown
                   /\ worker'[w].cooldown_until = worker[w].cooldown_until
                   /\ stateFile' = stateFile
          /\ (worker'[w].in_cooldown /\ ~worker[w].in_cooldown)
                => \/ worker[w].pc = "fetch" /\ worker'[w].pc = "cd_save"
                   \/ /\ worker'[w].pc \in {"init_cc", "reinit_cc"}
                      /\ stateFile.cooldown[w].in_cooldown
                      /\ hist.entered[w].ok
      ]_vars

\* C17 witness: a worker that a block had put into cooldown has, after the
\* cooldown, taken another profile whose navigation failed, and is not in
\* cooldown.
C17_Witness ==
    \E w \in Workers :
        /\ worker[w].pc = "emit"
        /\ worker[w].outcome = "nav_failed"
        /\ ~worker[w].in_cooldown
        /\ hist.entered[w].ok
        /\ hist.dequeues = 2

\* C18 (as stated): once shutdown has been asked for, the process does not
\* end while a worker is inside a fetch or between the save of a target's
\* markers and the save of its processed entry: a worker in flight reaches
\* its loop first.
C18_AsStated ==
    [][(~running /\ started /\ restarts' = restarts + 1)
          => \A w \in Pool :
                worker[w].pc \notin {"fetch", "cd_save", "ckpt_save",
                                     "persist", "mark_load", "mark_save"}
      ]_vars

\* The positions of a worker that holds a target: inside scrape_profile or
\* about to hand in its result.
InFlight == Busy \cup {"cd_save", "emit"}

\* The step ends worker w's call with its result put on results_queue.
Reports(w) ==
    /\ worker[w].pc = "emit"
    /\ results_queue' =
          Append(results_queue, [url |-> worker[w].url,
                                 success |-> worker[w].ret,
                                 worker_id |-> w])

SocialInputs ==
    UNION {{[kind |-> k, row |-> fx.act[k][i]] : i \in 1 .. Len(fx.act[k])} :
              k \in SocialKinds}

\* The recent rows on the engaged URL u whose post text normalizes to key.
RowsOf(u, key) ==
    {x \in SocialInputs :
        /\ is_recent(x.row.timestamp, clock)
        /\ x.row.url # EmptyUrl
        /\ normalize_url(x.row.url) = u
        /\ normalize_text(x.row.text) = key}

\* The groups of the engaged URL u whose post text normalizes to key.
GroupsOf(u, key) ==
    {j \in 1 .. Len(fx.out[u]) : normalize_text(fx.out[u][j].post_text) = key}

C21_OneGroupPerText ==
    fx.phase = "merged"
        => \A u \in NormUrls :
              \A j1, j2 \in 1 .. Len(fx.out[u]) :
                 normalize_text(fx.out[u][j1].post_text)
                    = normalize_text(fx.out[u][j2].post_text)
                    => j1 = j2

\* C21 witness: three recent rows of three kinds on one engaged profile,
\* written with both URL forms and both forms of one post text, have gone
\* into a single group.
C21_Witness ==
    /\ fx.phase = "merged"
    /\ Len(fx.act.post) = 1
    /\ Len(fx.act.comment) = 1
    /\ Len(fx.act.reaction) = 1
    /\ \A x \in SocialInputs :
          /\ is_recent(x.row.timestamp, clock)
          /\ normalize_url(x.row.url) = Txt(1, "norm")
          /\ x.row.url # EmptyUrl
          /\ normalize_text(x.row.text) = Txt(1, "norm")
    /\ {x.row.url : x \in SocialInputs} = {Txt(1, "norm"), Txt(1, "raw")}
    /\ {x.row.text : x \in SocialInputs} = {Txt(1, "norm"), Txt(1, "raw")}
    /\ Len(fx.out[Txt(1, "norm")]) = 1

\* The recent comment rows that went into group j of the engaged URL u.
CommentRowsOf(u, j) ==
    {x \in RowsOf(u, normalize_text(fx.out[u][j].post_text)) :
        x.kind = "comment"}

\* C22 (as stated): a group that holds a comment row carries the comment
\* text and the timestamp of a comment row of the group, whatever other
\* rows were merged into it and in whatever order.
C22_AsStated ==
    fx.phase = "merged"
        => \A u \in NormUrls :
              \A j \in 1 .. Len(fx.out[u]) :
                 (\E x \in CommentRowsOf(u, j) : x.row.comment # EmptyText)
                    => /\ fx.out[u][j].comment
                             \in {x.row.comment : x \in CommentRowsOf(u, j)}
                       /\ fx.out[u][j].comment_timestamp
                             \in {x.row.timestamp : x \in CommentRowsOf(u, j)}

\* C23: a fetch of a kind whose batch is empty emits no row and leaves the
\* kind's stored marker as it was.
C23_EmptyBatchFrame ==
    [][(fx.phase \in {"feed", "once"} /\ fx'.passes = fx.passes + 1
          /\ fx.data = <<>>)
          => /\ fx'.out = <<>>
             /\ fx'.since = fx.since
      ]_vars

\* C23 witness: an empty batch has been fetched against a stored marker,
\* which is still there.
C23_Witness ==
    /\ fx.phase \in {"once", "twice"}
    /\ fx.passes >= 1
    /\ fx.data = <<>>
    /\ fx.out = <<>>
    /\ fx.cutoff.tag = "iso"
    /\ fx.since = fx.cutoff

\* C24: the succeeded count never exceeds the processed count; a step that
\* takes a result from results_queue takes its head, adds one to the
\* processed count, adds one to the succeeded count exactly when the result
\* is a success, and leaves the state file, the profile store and the
\* profile queue alone; and the two counts change in no other step.
C24_ResultSinkObserves ==
    [][/\ successful_profiles' <= processed_profiles'
       /\ Len(results_queue') < Len(results_queue)
             => /\ results_queue' = Tail(results_queue)
                /\ processed_profiles' = processed_profiles + 1
                /\ successful_profiles' =
                      successful_profiles
                         + (IF Head(results_queue).success THEN 1 ELSE 0)
                /\ stateFile' = stateFile
                /\ profileStore' = profileStore
                /\ profile_queue' = profile_queue
                /\ worker' = worker
       /\ (processed_profiles' # processed_profiles
             \/ successful_profiles' # successful_profiles)
             => Len(results_queue') < Len(results_queue)
      ]_vars

\* C24 witness: a successful and a failed result have been consumed, with
\* markers and a processed entry in the state file.
C24_Witness ==
    /\ processed_profiles = 2
    /\ successful_profiles = 1
    /\ results_queue = <<>>
    /\ stateFile.processed_urls # <<>>


\* A fatal startup error: no credentials (none on the command line, a
\* credentials file that cannot be read, an empty list of accounts) or a
\* target source that is missing or cannot be read.
FatalStartup(f) ==
    \/ f.credentials \in {"absent", "unreadable", "empty"}
    \/ f.profile_file \in {"absent", "unreadable"}

\* C25: a fatal startup error (no credentials supplied, or an unreadable
\* target source) aborts pool startup with a non-zero exit: no worker
\* thread is started, and when the process has ended its exit status is
\* not 0.
C25_AsStated ==
    (fx.phase = "process" /\ FatalStartup(fx)) =>
        /\ fx.thread["worker"] = "none"
        /\ fx.pc = "exited" => 0 \notin fx.status


\* C26: on graceful shutdown (SIGINT or SIGTERM) every worker loop, the
\* result processor and the progress monitor stop, and the process exits
\* with status 0: a process that has ended after the signal ended with
\* status 0 and with none of its threads still alive.
C26_AsStated ==
    (fx.phase = "process" /\ fx.force /\ fx.pc = "exited") =>
        /\ fx.status = {0}
        /\ \A t \in ThreadNames : fx.thread[t] \in {"none", "ended"}


\* C27: the per-session profile cap and the session-duration cap are drawn
\* anew for every session of an agent: no session starts under the caps a
\* previous session of the agent has already run under.
C27_AsStated == \A w \in Pool : worker[w].caps # "reused"


\* The worker's cooldown flag is set and the wall clock has reached its
\* cooldown_until.
CooldownOver(w) ==
    /\ worker[w].in_cooldown
    /\ worker[w].cooldown_until.ok
    /\ clock >= worker[w].cooldown_until.t

\* C28: an agent in cooldown returns to active once the wall clock has
\* passed its cooldown_until: while the pool is running the agent's
\* cooldown flag is eventually cleared, at the latest by its next dequeue
\* (as far as the dequeues of the run go).
C28_CooldownEnds ==
    \A w \in Workers :
       (w \in Pool /\ running /\ CooldownOver(w)) ~>
          (~worker[w].in_cooldown \/ ~running \/ hist.dequeues >= MaxDequeues)
\* A worker of a running pool that has taken a target again, its flag
\* cleared, after the clock reached the cooldown_until it still holds.
C28_Witness ==
    \E w \in Pool :
       /\ running
       /\ ~worker[w].in_cooldown
       /\ worker[w].cooldown_until.ok
       /\ clock >= worker[w].cooldown_until.t
       /\ worker[w].pc \notin {"start", "init_cc", "loop", "exited"}


\* The step ends worker w's thread because its initialize failed.
InitFails(w) ==
    /\ worker[w].pc \in {"start", "init_cc"}
    /\ worker'[w].pc = "exited"

\* C29: recovery is local to one agent.  The step in which an agent's
\* initialization fails and its thread ends leaves the pool running and
\* the queue and every other agent as they were; and, up to the number of
\* dequeues the model follows, while an entry waits on the queue another
\* agent that is runnable comes to process a target.
C29_FailureIsLocal ==
    /\ [][\A w \in Workers :
             InitFails(w) =>
                /\ running' = running
                /\ profile_queue' = profile_queue
                /\ results_queue' = results_queue
                /\ \A v \in Workers \ {w} : worker'[v] = worker[v]
        ]_vars
    /\ \A w \in Workers : \A v \in Workers \ {w} :
          (/\ worker[w].pc = "exited"
           /\ worker[w].url = InvalidUrl
           /\ Runnable(v)
           /\ profile_queue # <<>>
           /\ hist.dequeues < MaxDequeues)
             ~> (worker[v].pc \in Busy \/ ~Runnable(v))

\* C29 witness: in a running pool one worker's thread has ended without
\* ever taking a target, and the other worker has taken both entries and
\* is processing the second.
C29_Witness ==
    \E w \in Pool : \E v \in Pool \ {w} :
       /\ running
       /\ worker[w].pc = "exited"
       /\ worker[w].url = InvalidUrl
       /\ hist.dequeues = 2
       /\ worker[v].pc \in Busy


\* The positions of the entries of a source that hold a profile URL.
ValidAt(source) == {i \in DOMAIN source : IsProfileUrl(source[i])}

C31_RoundRobin ==
    (fx.phase = "pool" /\ fx.built /\ fx.credentials # <<>>) =>
       LET pool == fx.worker_pool
           nc == Len(fx.credentials)
           np == Len(fx.proxies)
       IN  /\ Len(pool) = fx.worker_count
           /\ \A k \in DOMAIN pool :
                 /\ pool[k].worker_id = k - 1
                 /\ pool[k].credentials =
                       IF k <= nc THEN fx.credentials[k]
                       ELSE pool[k - nc].credentials
                 /\ np > 0 =>
                       pool[k].proxy = IF k <= np THEN fx.proxies[k]
                                       ELSE pool[k - np].proxy

\* C31 witness: three workers were built from two credentials and two
\* proxies, so the third worker wraps round to the first of each list.
C31_Witness ==
    /\ fx.phase = "pool"
    /\ fx.built
    /\ Len(fx.worker_pool) = 3
    /\ Len(fx.credentials) = 2
    /\ Len(fx.proxies) = 2
    /\ fx.worker_pool[3].credentials = fx.credentials[1]
    /\ fx.worker_pool[2].proxy = fx.proxies[2]


\* C39: no two agents of one pool are bound to the same credential
\* identity, for every worker_count and credentials list the pool
\* constructor accepts.
C39_AsStated ==
    (fx.phase = "pool" /\ fx.built) =>
       \A j, k \in DOMAIN fx.worker_pool :
          j # k => fx.worker_pool[j].credentials # fx.worker_pool[k].credentials


\* The step ends worker w's _enter_cooldown: the save of the cooldown entry
\* has been tried and scrape_profile returns.
LeavesEnterCooldown(w) ==
    /\ worker[w].pc = "cd_save"
    /\ worker'[w].pc # "cd_save"

\* The worker's cooldown as _enter_cooldown sets it: the flag, and a
\* cooldown_until that lies MinCooldownHours to MaxCooldownHours after now.
InFreshCooldown(wr, now) ==
    /\ wr.in_cooldown
    /\ wr.cooldown_until.ok
    /\ wr.cooldown_until.t - now \in MinCooldownHours .. MaxCooldownHours

\* The entry of the state file under worker w's own key holds the window.
PersistedWindow(st, w, wr) ==
    st.cooldown[w] = [present |-> TRUE, in_cooldown |-> TRUE,
                      cooldown_until |-> isoformat(wr.cooldown_until)]

C34_AsStated ==
    \A w \in Pool :
       (/\ worker[w].outcome = "store_write_failed"
        /\ ~profileStore[worker[w].url].present)
          => stateFile.times[worker[w].url].last = NoTimes


\* C35 (as stated): a write to the shared state file by one agent leaves
\* every key the agent does not own unchanged: the step of worker w that
\* changes the state file leaves every other worker's cooldown window and
\* every other target's markers as they were, and keeps every URL that was
\* in processed_urls.
C35_AsStated ==
    [][stateFile' # stateFile =>
          \A w \in Workers :
             worker'[w] # worker[w] =>
                /\ \A v \in Workers \ {w} :
                      /\ stateFile'.cooldown[v].in_cooldown =
                            stateFile.cooldown[v].in_cooldown
                      /\ stateFile'.cooldown[v].cooldown_until =
                            stateFile.cooldown[v].cooldown_until
                /\ \A u \in Targets \ {worker[w].url} :
                      stateFile'.times[u].last = stateFile.times[u].last
                /\ \A u \in Targets :
                      InSeq(u, stateFile.processed_urls) =>
                         InSeq(u, stateFile'.processed_urls)
      ]_vars


\* The step is a page operation of the activity simulation task: it loads
\* the feed or scrolls it.
SimulationDrivesPage ==
    /\ fx.task \in {"due", "scroll"}
    /\ fx'.task \in {"scroll", "sleeping"}
    /\ fx'.task # fx.task

\* C36 (as stated): the background activity simulation of an agent never
\* drives the agent's page while a scrape_profile call of that agent is in
\* flight, so the page whose content scrape_profile extracts is the profile
\* it navigated to.
C36_AsStated ==
    [][(fx.phase = "sim" /\ fx.call = "scrape_profile") =>
          /\ ~SimulationDrivesPage
          /\ fx'.content \in {"none", "profile"}
      ]_vars


\* C37 (as stated): after shutdown has set the running flag to false, no
\* agent dequeues a target or starts a fetch of a new target: no step of a
\* worker thread takes an entry from the queue while running is false.
C37_AsStated ==
    [][(fx.phase = "process" /\ fx.pc = "join" /\ ~fx.running) =>
          ~(/\ fx.thread["worker"] = "get"
            /\ fx'.thread["worker"] = "busy")
      ]_vars


\* The step is a fetch of worker w's target that went through: the page
\* was loaded, and either a block was found or the activity extracted.
FetchDone(w) ==
    /\ worker[w].pc = "fetch"
    /\ worker'[w].pc \in {"cd_save", "ckpt_save"}

C40_AsStated ==
    [][\A u \in Targets : is_processed(db, u) => is_processed(db', u)]_vars

=============================================================================
